---- MODULE Spec2Model ----
(***************************************************************************)
(* A model of the host<->guest call machinery of aingle-wasmer: the       *)
(* envelope codec, the packed result value, the host call protocol of a   *)
(* WASM instance with its guest arena, and the module cache of the engine.*)
(*                                                                         *)
(* Integer widths.  A u32 is kept as two 16-bit halves [hi, lo] and a u64  *)
(* as two u32 words [hi, lo], so that every value of the type fits the    *)
(* model checker's integers and the bit tests of the source (bit 63, the  *)
(* byte order of to_le_bytes) are computed, not assumed.                  *)
(***************************************************************************)
EXTENDS Integers, Sequences, FiniteSets, TLC

VARIABLES
    \* ---- envelope codec (crates/codec) -------------------------------
    payload,     \* the payload handed to encode_with_envelope
    flags,       \* the flags byte handed to encode_with_envelope
    output,      \* the caller's output buffer
    encRes,      \* what encode_with_envelope returned
    wire,        \* the bytes handed to decode_envelope
    decRes,      \* what decode_envelope returned
    cpc,         \* position of the codec caller
    twin,        \* a second input that differs from wire in one byte, and its decode
    \* ---- one WASM instance and the host calls on it (crates/host, guest)
    exports,     \* the names the instantiated module exports
    memSize,     \* size of the exported linear memory, in bytes
    mem,         \* the bytes of linear memory that were written (the rest is 0)
    arena,       \* the guest's thread-local ARENA: its live allocations
    pc,          \* the phase the current host call is in
    call,        \* the current call: entry point, name, input, where it was put
    ret,         \* what the invoked export returned or how it trapped
    result,      \* what the host call returned to its caller
    log,         \* phases entered and boundary operations done by the current call
    ncalls,      \* host calls started on the instance
    \* ---- one WasmEngine, its ModuleCache and the threads using them (crates/host)
    config,      \* the EngineConfig the engine was built from
    modules,     \* the cache's in-memory map: key -> handle (0: no entry)
    heap,        \* the Arc<Module> allocations made so far; a handle is an index
    disk,        \* the files of the cache directory, by key
    th,          \* each thread: where it is in its operation, and what it last got
    settled,     \* per key, the handles gets have returned since the last clear
    nops,        \* operations started on the engine
    \* ---- the value types of crates/common/src/slice.rs, called on their own
    sin,         \* the arguments: two slices a and b, an offset o
    sout,        \* which functions were called, and what they returned
    \* ---- the guest arena of crates/guest/src/arena.rs, called on its own
    alog,        \* the arena operations done so far, each with what it returned
    \* ---- the Env of crates/host/src/env.rs
    env,         \* which of memory, allocate and deallocate are present
    \* ---- the size-bounded ModuleCache of crates/host/src/cache.rs
    lru          \* the cache, and what was done to it so far

codecVars == <<payload, flags, output, encRes, wire, decRes, cpc, twin>>
callVars == <<exports, memSize, mem, arena, pc, call, ret, result, log, ncalls>>

cacheVars == <<config, modules, heap, disk, th, settled, nops>>

sliceVars == <<sin, sout>>

vars == <<codecVars, callVars, cacheVars, sliceVars, alog, env, lru>>

-----------------------------------------------------------------------------
(* Bounds of the model. *)

\* longest payload that is encoded or framed
MaxPayload == 2

\* bytes an output buffer may have beyond the 12 + MaxPayload it needs
MaxSlack == 2

\* host calls made on one instance
MaxCalls == 2

-----------------------------------------------------------------------------
(* Fixed-width integers. *)

Pow16 == 2^16

\* n as u32: the low 32 bits of n, as two 16-bit halves
U32(n) == [hi |-> (n \div Pow16) % Pow16, lo |-> n % Pow16]

\* AsUsize with the cast narrowed to 16 bits
AsUsizeLow16(x) == x.lo

\* x as usize (x a u32)
AsUsize(x) == x.hi * Pow16 + x.lo

\* U32ToLeBytes with the bytes in big-endian order
U32ToBeBytes(x) == <<x.hi \div 256, x.hi % 256, x.lo \div 256, x.lo % 256>>

\* u32::to_le_bytes / u32::from_le_bytes
U32ToLeBytes(x) == <<x.lo % 256, x.lo \div 256, x.hi % 256, x.hi \div 256>>
U32FromLeBytes(b) == [hi |-> b[3] + 256 * b[4], lo |-> b[1] + 256 * b[2]]

\* u16::to_le_bytes / u16::from_le_bytes
U16ToLeBytes(m) == <<m % 256, m \div 256>>
U16FromLeBytes(b) == b[1] + 256 * b[2]

RECURSIVE Xor(_, _)
\* bitwise exclusive or of two naturals
Xor(a, b) ==
    IF a = 0 THEN b
    ELSE IF b = 0 THEN a
    ELSE (((a % 2) + (b % 2)) % 2) + 2 * Xor(a \div 2, b \div 2)

\* bitwise exclusive or of two u32
Xor32(x, y) == [hi |-> Xor(x.hi, y.hi), lo |-> Xor(x.lo, y.lo)]

\* x >> 1 on a u32
Shr1(x) == [hi |-> x.hi \div 2, lo |-> (x.lo \div 2) + (x.hi % 2) * 32768]

-----------------------------------------------------------------------------
(* crates/codec/src/checksum.rs: compute_checksum = crc32fast::hash, the   *)
(* CRC-32 of IEEE 802.3 (reflected polynomial 0xEDB88320, initial value    *)
(* and final xor 0xFFFFFFFF).                                              *)

CrcPoly == [hi |-> 60856, lo |-> 33568]        \* 0xEDB8_8320
CrcOnes == [hi |-> 65535, lo |-> 65535]        \* 0xFFFF_FFFF

RECURSIVE CrcShift(_, _)
\* k rounds of: crc = (crc >> 1) ^ (poly if the low bit was set)
CrcShift(crc, k) ==
    IF k = 0 THEN crc
    ELSE CrcShift(IF crc.lo % 2 = 1 THEN Xor32(Shr1(crc), CrcPoly) ELSE Shr1(crc),
                  k - 1)

\* the table of crc32fast: entry b is the CRC register b after eight rounds
CrcTable == [b \in 0..255 |-> CrcShift([hi |-> 0, lo |-> b], 8)]

RECURSIVE CrcUpdate(_, _, _)
\* the running CRC after the bytes data[i..], one byte after the other,
\* crc = table[(crc ^ byte) & 0xFF] ^ (crc >> 8): the first half of what is
\* left, then the rest (the value so far is computed before the bytes that
\* follow are entered)
CrcUpdate(crc, data, i) ==
    LET n == Len(data) - i + 1 IN
    IF n <= 0 \/ crc.lo < 0 THEN crc
    ELSE IF n = 1
    THEN Xor32(CrcTable[Xor(crc.lo % 256, data[i])],
               [hi |-> crc.hi \div 256, lo |-> (crc.lo \div 256) + (crc.hi % 256) * 256])
    ELSE CrcUpdate(CrcUpdate(crc, SubSeq(data, i, i + (n \div 2) - 1), 1),
                   data, i + (n \div 2))

\* a checksum that only depends on the length of the data
ChecksumOfLength(data) == U32(Len(data))

compute_checksum(data) == Xor32(CrcUpdate(CrcOnes, data, 1), CrcOnes)

-----------------------------------------------------------------------------
(* crates/types/src/lib.rs and envelope.rs: the envelope header. *)

PROTOCOL_VERSION == 1
MAGIC == 16713                                  \* 0x4149
HEADER_SIZE == 12                               \* EnvelopeHeader::SIZE
FLAG_IS_ERROR == 8                              \* EnvelopeFlags::IsError

\* EnvelopeFlags::is_set: flags & bit != 0, for a one-bit flag
FlagIsSet(bit, f) == (f \div bit) % 2 = 1

\* EnvelopeHeader::new
EnvelopeHeaderNew(payload_len, checksum, f) ==
    [magic |-> MAGIC, version |-> PROTOCOL_VERSION, flags |-> f,
     payload_len |-> payload_len, checksum |-> checksum]

\* HeaderValidate with the version test off by one
HeaderValidateStrict(h) ==
    IF h.magic # MAGIC THEN "InvalidMagic"
    ELSE IF h.version >= PROTOCOL_VERSION THEN "UnsupportedVersion"
    ELSE "Ok"

\* EnvelopeHeader::validate
\* validate that also rejects a header whose IsError flag is set
HeaderValidateNoErrorFlag(h) ==
    IF h.magic # MAGIC THEN "InvalidMagic"
    ELSE IF h.version > PROTOCOL_VERSION THEN "UnsupportedVersion"
    ELSE IF FlagIsSet(FLAG_IS_ERROR, h.flags) THEN "InvalidFlags"
    ELSE "Ok"

HeaderValidate(h) ==
    IF h.magic # MAGIC THEN "InvalidMagic"
    ELSE IF h.version > PROTOCOL_VERSION THEN "UnsupportedVersion"
    ELSE "Ok"

\* EnvelopeHeader::to_bytes
\* a layout with the flags byte in front of the version byte
HeaderToBytesFlagsFirst(h) ==
    U16ToLeBytes(h.magic) \o <<h.flags, h.version>>
        \o U32ToLeBytes(h.payload_len) \o U32ToLeBytes(h.checksum)

HeaderToBytes(h) ==
    U16ToLeBytes(h.magic) \o <<h.version, h.flags>>
        \o U32ToLeBytes(h.payload_len) \o U32ToLeBytes(h.checksum)

\* EnvelopeHeader::from_bytes
HeaderFromBytes(b) ==
    [magic |-> U16FromLeBytes(SubSeq(b, 1, 2)), version |-> b[3], flags |-> b[4],
     payload_len |-> U32FromLeBytes(SubSeq(b, 5, 8)),
     checksum |-> U32FromLeBytes(SubSeq(b, 9, 12))]

\* EnvelopeHeader::is_error
\* an is_error that never sees the flag
HeaderIsErrorNever(h) == FALSE

HeaderIsError(h) == FlagIsSet(FLAG_IS_ERROR, h.flags)

-----------------------------------------------------------------------------
(* crates/codec/src/encode.rs *)

\* Encoder::write_bytes on an encoder [buffer, position]
EncoderWriteBytes(enc, bytes) ==
    LET remaining == Len(enc.buffer) - enc.position IN
    IF remaining < Len(bytes)
    THEN [ok |-> FALSE, enc |-> enc,
          err |-> [kind |-> "BufferTooSmall", needed |-> Len(bytes),
                   available |-> remaining]]
    ELSE [ok |-> TRUE,
          enc |-> [buffer |-> SubSeq(enc.buffer, 1, enc.position) \o bytes
                                  \o SubSeq(enc.buffer, enc.position + Len(bytes) + 1,
                                            Len(enc.buffer)),
                   position |-> enc.position + Len(bytes)],
          err |-> [kind |-> "None"]]

\* encode_with_envelope without the size check in front: the writes fail instead
EncodeWithoutSizeCheck(p, f, out) ==
    LET header == EnvelopeHeaderNew(U32(Len(p)), compute_checksum(p), f)
        w1 == EncoderWriteBytes([buffer |-> out, position |-> 0], HeaderToBytes(header))
        w2 == EncoderWriteBytes(w1.enc, p)
    IN IF ~w1.ok THEN [ok |-> FALSE, len |-> 0, out |-> w1.enc.buffer, err |-> w1.err]
       ELSE IF ~w2.ok
       THEN [ok |-> FALSE, len |-> 0, out |-> w2.enc.buffer, err |-> w2.err]
       ELSE [ok |-> TRUE, len |-> w2.enc.position, out |-> w2.enc.buffer,
             err |-> [kind |-> "None"]]

\* encode_with_envelope(payload, flags, output): the result and the buffer after
encode_with_envelope(p, f, out) ==
    LET total_size == HEADER_SIZE + Len(p) IN
    IF Len(out) < total_size
    THEN [ok |-> FALSE, len |-> 0, out |-> out,
          err |-> [kind |-> "BufferTooSmall", needed |-> total_size,
                   available |-> Len(out)]]
    ELSE LET checksum == compute_checksum(p)
             header == EnvelopeHeaderNew(U32(Len(p)), checksum, f)
             w1 == EncoderWriteBytes([buffer |-> out, position |-> 0],
                                     HeaderToBytes(header))
             w2 == EncoderWriteBytes(w1.enc, p)
         IN IF ~w1.ok THEN [ok |-> FALSE, len |-> 0, out |-> w1.enc.buffer, err |-> w1.err]
            ELSE IF ~w2.ok
            THEN [ok |-> FALSE, len |-> 0, out |-> w2.enc.buffer, err |-> w2.err]
            ELSE [ok |-> TRUE, len |-> w2.enc.position, out |-> w2.enc.buffer,
                  err |-> [kind |-> "None"]]

-----------------------------------------------------------------------------
(* crates/codec/src/decode.rs *)

NoHeader == EnvelopeHeaderNew(U32(0), U32(0), 0)

DecodeErr(kind) == [ok |-> FALSE, err |-> kind, header |-> NoHeader, payload |-> <<>>]

\* decode_envelope(buffer)
decode_envelope(buffer) ==
    IF Len(buffer) < HEADER_SIZE THEN DecodeErr("UnexpectedEof")
    ELSE LET header == HeaderFromBytes(SubSeq(buffer, 1, HEADER_SIZE)) IN
         IF HeaderValidate(header) # "Ok" THEN DecodeErr("InvalidFormat")
         ELSE LET payload_start == HEADER_SIZE
                  payload_end == payload_start + AsUsize(header.payload_len)
              IN IF Len(buffer) < payload_end THEN DecodeErr("UnexpectedEof")
                 ELSE LET body == SubSeq(buffer, payload_start + 1, payload_end) IN
                      IF compute_checksum(body) # header.checksum
                      THEN DecodeErr("InvalidFormat")
                      ELSE [ok |-> TRUE, err |-> "None", header |-> header,
                            payload |-> body]

-----------------------------------------------------------------------------
(* crates/common/src/slice.rs: WasmSlice and the packed WasmResult.  A u64  *)
(* is [hi, lo] of u32 words; bit 63 is the top bit of hi.hi.                *)

WasmSliceNew(ptr, len) == [ptr |-> ptr, len |-> len]
WasmSliceEmpty == WasmSliceNew(U32(0), U32(0))
SliceIsEmpty(s) == AsUsize(s.len) = 0

\* a packing with the two words exchanged
SlicePackSwapped(s) == [hi |-> s.len, lo |-> s.ptr]

\* WasmSlice::pack: (ptr << 32) | len
SlicePack(s) == [hi |-> s.ptr, lo |-> s.len]

\* WasmSlice::unpack: ptr = packed >> 32, len = packed as u32
SliceUnpack(packed) == [ptr |-> packed.hi, len |-> packed.lo]

\* raw | ERROR_BIT and raw & !ERROR_BIT, with ERROR_BIT = 1 << 63
SetErrorBit(raw) == [raw EXCEPT !.hi.hi = IF @ >= 32768 THEN @ ELSE @ + 32768]
ClearErrorBit(raw) == [raw EXCEPT !.hi.hi = @ % 32768]

\* WasmResult::ok / err / is_err / is_ok / slice (from_raw and into_raw wrap
\* and unwrap the same u64)
ResultOk(s) == SlicePack(s)
ResultErr(s) == SetErrorBit(SlicePack(s))
ResultIsErr(r) == r.hi.hi >= 32768
ResultIsOkBit62(r) == r.hi.hi % 32768 < 16384
ResultIsOk(r) == ~ResultIsErr(r)
ResultSlice(r) == SliceUnpack(ClearErrorBit(r))
ResultFromRaw(raw) == raw
ResultIntoRaw(r) == r

\* u32 comparison and addition on the two halves
U32Lt(x, y) == x.hi < y.hi \/ (x.hi = y.hi /\ x.lo < y.lo)
U32Max == [hi |-> Pow16 - 1, lo |-> Pow16 - 1]
WrappingAdd(x, y) ==
    [hi |-> (x.hi + y.hi + (x.lo + y.lo) \div Pow16) % Pow16, lo |-> (x.lo + y.lo) % Pow16]
SaturatingAdd(x, y) ==
    IF x.hi + y.hi + (x.lo + y.lo) \div Pow16 >= Pow16 THEN U32Max ELSE WrappingAdd(x, y)

\* an end that wraps around instead of saturating
SliceEndWrapping(s) == WrappingAdd(s.ptr, s.len)

\* WasmSlice::end / overlaps / contains
SliceEnd(s) == SaturatingAdd(s.ptr, s.len)
SliceOverlaps(s, other) == U32Lt(s.ptr, SliceEnd(other)) /\ U32Lt(other.ptr, SliceEnd(s))
SliceContains(s, offset) == ~U32Lt(offset, s.ptr) /\ U32Lt(offset, SliceEnd(s))

-----------------------------------------------------------------------------
(* Linear memory of the instance: zero-initialised, memSize bytes; only the *)
(* written bytes are kept.                                                 *)

PAGE_SIZE == 2^16

\* MemoryView::read: the len bytes at ptr (the caller has checked the bounds)
MemRead(m, ptr, len) ==
    [i \in 1..len |-> IF (ptr + i - 1) \in DOMAIN m THEN m[ptr + i - 1] ELSE 0]

\* MemoryView::write / copy_nonoverlapping: bytes stored at ptr
MemWrite(m, ptr, bytes) ==
    [a \in DOMAIN m \cup (ptr..(ptr + Len(bytes) - 1)) |->
        IF a >= ptr /\ a < ptr + Len(bytes) THEN bytes[a - ptr + 1] ELSE m[a]]

\* the view's bounds check: the range [ptr, ptr + len) lies in memory
InBounds(ptr, len, size) == ptr + len <= size

-----------------------------------------------------------------------------
(* crates/guest/src/arena.rs: the arena, a bumpalo Bump.  A Bump owns a     *)
(* list of chunks and hands out addresses of the newest chunk from its end *)
(* downwards; when a request does not fit it takes a new chunk, at least   *)
(* twice the size of the newest one.  allocated_bytes is the total size of *)
(* the chunks it owns.  reset frees every chunk but the newest and moves   *)
(* the bump finger back to that chunk's end.                               *)

\* where the guest's heap begins in its linear memory
GuestHeapBase == 2048

\* the size of the first chunk a Bump takes
BumpFirstChunk == 512

\* GuestArena::new: Bump::new() owns no chunk yet
EmptyArena == [allocs |-> <<>>, chunks |-> <<>>, next |-> GuestHeapBase, bytes |-> 0]

\* an alloc that hands out the address below the bump finger and leaves the
\* finger where it was
ArenaAllocKeepingFinger(a, len) ==
    [arena |-> [a EXCEPT !.allocs = Append(@, [ptr |-> a.next - len, len |-> len]),
                         !.chunks = IF @ = <<>>
                                    THEN <<[base |-> GuestHeapBase - BumpFirstChunk,
                                            size |-> BumpFirstChunk]>>
                                    ELSE @],
     ptr |-> a.next - len]

\* GuestArena::alloc(len): the arena after, and the pointer
ArenaAlloc(a, len) ==
    LET n == Len(a.chunks)
        room == IF n = 0 THEN 0 ELSE a.next - a.chunks[n].base
    IN IF len <= room
       THEN [arena |-> [a EXCEPT !.allocs = Append(@, [ptr |-> a.next - len, len |-> len]),
                                 !.next = a.next - len],
             ptr |-> a.next - len]
       ELSE LET base == IF n = 0 THEN GuestHeapBase
                        ELSE a.chunks[n].base + a.chunks[n].size
                goal == IF n = 0 THEN BumpFirstChunk ELSE 2 * a.chunks[n].size
                size == IF len > goal THEN len ELSE goal
            IN [arena |-> [allocs |-> Append(a.allocs, [ptr |-> base + size - len,
                                                        len |-> len]),
                           chunks |-> Append(a.chunks, [base |-> base, size |-> size]),
                           next |-> base + size - len,
                           bytes |-> a.bytes + size],
                ptr |-> base + size - len]

\* GuestArena::reset
ArenaReset(a) ==
    IF a.chunks = <<>> THEN a
    ELSE LET cur == a.chunks[Len(a.chunks)] IN
         [allocs |-> <<>>, chunks |-> <<cur>>, next |-> cur.base + cur.size,
          bytes |-> cur.size]

\* a deallocate that gives the newest allocation back to the bump finger
GuestDeallocateFreeing(a, ptr, len) ==
    IF a.allocs # <<>> /\ a.allocs[Len(a.allocs)] = [ptr |-> ptr, len |-> len]
    THEN [a EXCEPT !.allocs = SubSeq(@, 1, Len(@) - 1), !.next = @ + len]
    ELSE a

\* lib.rs, __aingle_guest_deallocate(_ptr, _len) and __hc__deallocate_1: the
\* body is empty, the arena is not touched
GuestDeallocate(a, ptr, len) == a

\* arena_alloc_copy(data) in a guest with linear memory m of size bytes:
\* a store outside linear memory traps
ArenaAllocCopy(a, m, size, data) ==
    LET al == ArenaAlloc(a, Len(data)) IN
    IF ~InBounds(al.ptr, Len(data), size)
    THEN [trap |-> TRUE, arena |-> a, mem |-> m, ptr |-> 0]
    ELSE [trap |-> FALSE, arena |-> al.arena, mem |-> MemWrite(m, al.ptr, data),
          ptr |-> al.ptr]

-----------------------------------------------------------------------------
(* crates/guest/src/memory.rs: the guest's return path. *)

RETURN_OK_BUFFER == 4096
RETURN_ERR_BUFFER == 256

\* vec![0u8; n] and [0u8; n], for n up to the largest buffer of the source
ZeroBuffer == [i \in 1..RETURN_OK_BUFFER |-> 0]
Zeros(n) == SubSeq(ZeroBuffer, 1, n)

\* what a guest function hands back: the packed value (or a trap), and the
\* arena and memory it leaves
GuestReturned(raw, a, m) ==
    [kind |-> "i64", raw |-> raw, cause |-> "none", arena |-> a, mem |-> m]
GuestTrapped(cause, a, m) ==
    [kind |-> "trap", raw |-> ResultOk(WasmSliceEmpty), cause |-> cause,
     arena |-> a, mem |-> m]

\* a return path that hands out the allocation without copying into it
ReturnEnvelopeUnwritten(a, m, size, bytes, isErr) ==
    LET al == ArenaAlloc(a, Len(bytes))
        s == WasmSliceNew(U32(al.ptr), U32(Len(bytes)))
    IN GuestReturned(IF isErr THEN ResultErr(s) ELSE ResultOk(s), al.arena, m)

\* copy an encoded envelope into the arena and pack (ptr, len) with the bit
ReturnEnvelope(a, m, size, bytes, isErr) ==
    LET c == ArenaAllocCopy(a, m, size, bytes)
        s == WasmSliceNew(U32(c.ptr), U32(Len(bytes)))
    IN IF c.trap THEN GuestTrapped("oob", a, m)
       ELSE GuestReturned(IF isErr THEN ResultErr(s) ELSE ResultOk(s), c.arena, c.mem)

\* a return_err whose last resort is an ok result
ReturnErrFallbackOk(a, m, size, message) ==
    LET e == encode_with_envelope(message, FLAG_IS_ERROR, Zeros(RETURN_ERR_BUFFER)) IN
    IF e.ok THEN ReturnEnvelope(a, m, size, SubSeq(e.out, 1, e.len), TRUE)
    ELSE GuestReturned(ResultOk(WasmSliceEmpty), a, m)

\* return_err(message)
ReturnErr(a, m, size, message) ==
    LET e == encode_with_envelope(message, FLAG_IS_ERROR, Zeros(RETURN_ERR_BUFFER)) IN
    IF e.ok THEN ReturnEnvelope(a, m, size, SubSeq(e.out, 1, e.len), TRUE)
    ELSE GuestReturned(ResultErr(WasmSliceEmpty), a, m)

\* return_ok(data)
ReturnOk(a, m, size, data) ==
    LET e == encode_with_envelope(data, 0, Zeros(RETURN_OK_BUFFER)) IN
    IF e.ok THEN ReturnEnvelope(a, m, size, SubSeq(e.out, 1, e.len), FALSE)
    ELSE ReturnErr(a, m, size, <<101, 110, 99, 111, 100, 105, 110, 103, 32,
                                 101, 114, 114, 111, 114>>)

-----------------------------------------------------------------------------
(* crates/host/src/error.rs *)

HostErr(kind, text, bytes) ==
    [status |-> "err", bytes |-> <<>>,
     err |-> [kind |-> kind, text |-> text, bytes |-> bytes]]
HostOk(bytes) ==
    [status |-> "ok", bytes |-> bytes,
     err |-> [kind |-> "None", text |-> "", bytes |-> <<>>]]
NoResult ==
    [status |-> "none", bytes |-> <<>>,
     err |-> [kind |-> "None", text |-> "", bytes |-> <<>>]]

\* impl From<HostError> for WasmError
HostErrorToWasmError(kind) ==
    CASE kind = "FunctionNotFound" -> <<"GuestCall", "FunctionNotExported">>
      [] kind = "InvalidReturn" -> <<"GuestCall", "InvalidReturn">>
      [] kind = "MeteringExceeded" -> <<"GuestCall", "MeteringExceeded">>
      [] kind = "GuestError" -> <<"GuestCall", "Panic">>
      [] OTHER -> <<"HostCall", "HostError(0)">>

RECURSIVE Utf8Lossy(_)
\* String::from_utf8_lossy on bytes none of which begins a multi-byte
\* sequence: an ASCII byte is kept, any other byte becomes U+FFFD (EF BF BD)
Utf8Lossy(bytes) ==
    IF bytes = <<>> THEN <<>>
    ELSE (IF Head(bytes) < 128 THEN <<Head(bytes)>> ELSE <<239, 191, 189>>)
             \o Utf8Lossy(Tail(bytes))

-----------------------------------------------------------------------------
(* The guest export a host call invokes.  The module is untrusted: it may   *)
(* return through return_ok or return_err, hand back any packed value,     *)
(* frame an envelope itself, trap, or not return an i64.                   *)

ALLOCATE_EXPORT == "__hc__allocate_1"
MEMORY_EXPORT == "memory"

GuestData == {<<>>, <<33>>, <<255>>}
RawPtrs == {0, 1024, 65530}
RawLens == {0, 12}
TrapCauses == {"metering", "unreachable"}

GuestOutcomes ==
    {[kind |-> "return_ok", data |-> d, flags |-> 0, err |-> FALSE,
      raw |-> ResultOk(WasmSliceEmpty), cause |-> "none"] : d \in GuestData}
    \cup
    {[kind |-> "return_err", data |-> d, flags |-> FLAG_IS_ERROR, err |-> TRUE,
      raw |-> ResultOk(WasmSliceEmpty), cause |-> "none"] : d \in GuestData}
    \cup
    {[kind |-> "framed", data |-> <<33>>, flags |-> f, err |-> (f = 0),
      raw |-> ResultOk(WasmSliceEmpty), cause |-> "none"] : f \in {0, FLAG_IS_ERROR}}
    \cup
    {[kind |-> "raw", data |-> <<>>, flags |-> 0, err |-> e,
      raw |-> IF e THEN ResultErr(WasmSliceNew(U32(p), U32(l)))
              ELSE ResultOk(WasmSliceNew(U32(p), U32(l))),
      cause |-> "none"] : e \in BOOLEAN, p \in RawPtrs, l \in RawLens}
    \cup
    {[kind |-> "trap", data |-> <<>>, flags |-> 0, err |-> FALSE,
      raw |-> ResultOk(WasmSliceEmpty), cause |-> c] : c \in TrapCauses}
    \cup
    {[kind |-> "not_i64", data |-> <<>>, flags |-> 0, err |-> FALSE,
      raw |-> ResultOk(WasmSliceEmpty), cause |-> "none"]}

\* one run of the export in a guest with arena a and memory m
GuestRun(o, a, m, size) ==
    CASE o.kind = "return_ok" -> ReturnOk(a, m, size, o.data)
      [] o.kind = "return_err" -> ReturnErr(a, m, size, o.data)
      [] o.kind = "framed" ->
            ReturnEnvelope(a, m, size,
                encode_with_envelope(o.data, o.flags,
                                     Zeros(HEADER_SIZE + Len(o.data))).out,
                o.err)
      [] o.kind = "raw" -> GuestReturned(o.raw, a, m)
      [] o.kind = "trap" -> GuestTrapped(o.cause, a, m)
      [] OTHER -> [GuestReturned(o.raw, a, m) EXCEPT !.kind = "other"]

NoRet == [kind |-> "none", raw |-> ResultOk(WasmSliceEmpty), cause |-> "none"]

-----------------------------------------------------------------------------
(* crates/guest/src/host_call.rs: the guest calls an import of the host. *)

\* the import host_fn(ptr, len): the host places its response bytes, if any,
\* in guest memory through the guest's allocator and returns the packed
\* (ptr, len) with or without bit 63
HostImport(h, a, m, size) ==
    LET c == IF h.bytes = <<>> THEN [trap |-> FALSE, arena |-> a, mem |-> m, ptr |-> 0]
             ELSE ArenaAllocCopy(a, m, size, h.bytes)
        s == WasmSliceNew(U32(c.ptr), U32(Len(h.bytes)))
    IN IF c.trap THEN GuestTrapped("oob", a, m)
       ELSE GuestReturned(IF h.err THEN ResultErr(s) ELSE ResultOk(s), c.arena, c.mem)

\* host_call_raw(host_fn, args): the Result, the packed value the host
\* returned, and the arena and memory afterwards
host_call_raw(a, m, size, args, h) ==
    LET Res(r, ok, bytes, err, code) ==
            [ok |-> ok, payload |-> bytes, err |-> err, code |-> code,
             ret |-> [kind |-> r.kind, raw |-> r.raw, cause |-> r.cause],
             arena |-> r.arena, mem |-> r.mem]
        Decoded(r, wasm_result, d) ==
            IF ~d.ok THEN Res(r, FALSE, <<>>, <<"Deserialize", d.err>>, U32(0))
            ELSE IF ResultIsErr(wasm_result) \/ HeaderIsError(d.header)
            THEN Res(r, FALSE, <<>>, <<"HostCall", "HostError">>,
                     IF Len(d.payload) >= 4 THEN U32FromLeBytes(SubSeq(d.payload, 1, 4))
                     ELSE U32(0))
            ELSE Res(r, TRUE, d.payload, <<>>, U32(0))
        Sliced(r, wasm_result, slice) ==
            IF SliceIsEmpty(slice)
            THEN IF ResultIsErr(wasm_result)
                 THEN Res(r, FALSE, <<>>, <<"HostCall", "HostError">>, U32(0))
                 ELSE Res(r, TRUE, <<>>, <<>>, U32(0))
            ELSE Decoded(r, wasm_result,
                         decode_envelope(MemRead(r.mem, AsUsize(slice.ptr),
                                                 AsUsize(slice.len))))
        Returned(c, r) ==
            IF c.trap \/ r.kind # "i64"
            THEN [Res(r, FALSE, <<>>, <<"Trap">>, U32(0)) EXCEPT !.arena = a, !.mem = m]
            ELSE Sliced(r, ResultFromRaw(r.raw), ResultSlice(ResultFromRaw(r.raw)))
        Copied(c) == Returned(c, HostImport(h, c.arena, c.mem, size))
        Encoded(e) ==
            IF ~e.ok
            THEN [ok |-> FALSE, payload |-> <<>>, err |-> <<"Serialize", e.err.kind>>,
                  code |-> U32(0), ret |-> NoRet, arena |-> a, mem |-> m]
            ELSE Copied(ArenaAllocCopy(a, m, size, SubSeq(e.out, 1, e.len)))
    IN Encoded(encode_with_envelope(args, 0, Zeros(RETURN_OK_BUFFER)))

-----------------------------------------------------------------------------
(* crates/host/src/env.rs: the Env of an instance.  The size of the linear  *)
(* memory it is used with is a u64 kept as [hi, lo], lo the low 16 bits:   *)
(* a memory of p pages has size [hi |-> p, lo |-> 0].                      *)

\* Env::new: Default, every field None
EnvNew == [memory |-> FALSE, allocate |-> FALSE, deallocate |-> FALSE]

\* Env::is_initialized
EnvIsInitialized(e) == e.memory /\ e.allocate /\ e.deallocate

\* an end offset computed in 32 bits
EndOffsetWrapping(ptr, len) == WrappingAdd(ptr, len)

\* start + len as u64, for u32 start and len: the sum does not wrap
EndOffset(ptr, len) ==
    [hi |-> ptr.hi + len.hi + (ptr.lo + len.lo) \div Pow16, lo |-> (ptr.lo + len.lo) % Pow16]

\* MemoryView::read of len bytes at a u32 address, within bounds; no byte at
\* 2^31 or above is ever written (see move_bytes_to_guest)
ViewRead(m, ptr, len) ==
    [i \in 1..AsUsize(len) |->
        LET a == WrappingAdd(ptr, U32(i - 1)) IN
        IF a.hi < Pow16 \div 2 /\ AsUsize(a) \in DOMAIN m THEN m[AsUsize(a)] ELSE 0]

\* Env::consume_bytes_from_guest(store, guest_ptr, len)
consume_bytes_from_guest(e, m, size, guest_ptr, len) ==
    IF ~e.memory THEN HostErr("MemoryAccess", "Memory not initialized", <<>>)
    ELSE LET end == EndOffset(guest_ptr, len) IN
         IF U32Lt(size, end) THEN HostErr("MemoryAccess", "Out of bounds", <<>>)
         ELSE HostOk(ViewRead(m, guest_ptr, len))

\* Env::move_bytes_to_guest(store, bytes), a being what the guest's allocate
\* export does when called: the result, the memory afterwards, and the
\* lengths allocate was called with.  ptr is an i32: ptr as u64 extends
\* its sign, so that a pointer with bit 31 set lies beyond every memory.
move_bytes_to_guest(e, m, size, bytes, a) ==
    LET len == U32(Len(bytes))
        Res(r, raw, mm, calls) == [res |-> r, raw |-> raw, mem |-> mm, allocs |-> calls]
        none == SlicePack(WasmSliceEmpty)
    IN IF ~e.memory
       THEN Res(HostErr("MemoryAccess", "Memory not initialized", <<>>), none, m, <<>>)
       ELSE IF ~e.allocate
       THEN Res(HostErr("MemoryAccess", "Allocate function not initialized", <<>>),
                none, m, <<>>)
       ELSE IF a.trap
       THEN Res(HostErr("MemoryAccess", "Failed to allocate", <<>>), none, m, <<len>>)
       ELSE IF a.ptr.hi >= Pow16 \div 2 \/ U32Lt(size, EndOffset(a.ptr, len))
       THEN Res(HostErr("MemoryAccess", "Failed to write to memory", <<>>), none, m,
                <<len>>)
       ELSE Res(HostOk(<<>>), SlicePack(WasmSliceNew(a.ptr, len)),
                MemWrite(m, AsUsize(a.ptr), bytes), <<len>>)

\* Env::deallocate_in_guest(store, ptr, len), trap saying whether the
\* guest's deallocate export traps when called
deallocate_in_guest(e, trap) ==
    IF e.deallocate /\ trap THEN HostErr("MemoryAccess", "Failed to deallocate", <<>>)
    ELSE HostOk(<<>>)

-----------------------------------------------------------------------------
(* crates/host/src/instance.rs and guest.rs: a host call, phase by phase.   *)

INPUT_PTR == 1024
INPUT_SLACK == 64

EntryPoints == {"call_raw", "guest_call"}
CallNames == {"run", "absent"}
CallArgs == {<<>>, <<7>>}

\* the modules an instance is made of: what they export, and their memory
Instances ==
    {[exports |-> {"run", MEMORY_EXPORT, ALLOCATE_EXPORT}, pages |-> 1],
     [exports |-> {"run", ALLOCATE_EXPORT}, pages |-> 1],
     [exports |-> {"run", MEMORY_EXPORT}, pages |-> 1],
     [exports |-> {"run", MEMORY_EXPORT, ALLOCATE_EXPORT}, pages |-> 0]}

\* exports.get_function(name) finds a function export
HasFunction(name) == name \in exports /\ name # MEMORY_EXPORT

\* the call ends with an error: `?` or `return Err(..)`
Fail(e) ==
    /\ result' = e
    /\ pc' = "Failed"
    /\ log' = Append(log, "Failed")

\* a caller starts a call on the idle instance
BeginCall ==
    /\ pc \in {"Idle", "Done", "Failed"}
    /\ ncalls < MaxCalls
    /\ \E e \in EntryPoints, n \in CallNames, a \in CallArgs :
          call' = [entry |-> e, name |-> n, args |-> a, ptr |-> 0, buf |-> <<>>]
    /\ pc' = "Ready"
    /\ log' = <<"Ready">>
    /\ ret' = NoRet
    /\ result' = NoResult
    /\ ncalls' = ncalls + 1
    /\ UNCHANGED <<exports, memSize, mem, arena, codecVars, cacheVars, sliceVars, alog, env, lru>>

\* WasmInstance::call_raw: look up the function, frame the input, get memory
CallRawReady ==
    /\ pc = "Ready" /\ call.entry = "call_raw"
    /\ LET enc == encode_with_envelope(call.args, 0,
                                       Zeros(Len(call.args) + INPUT_SLACK)) IN
       IF ~HasFunction(call.name)
       THEN Fail(HostErr("FunctionNotFound", call.name, <<>>)) /\ UNCHANGED call
       ELSE IF ~enc.ok
       THEN Fail(HostErr("Serialization", enc.err.kind, <<>>)) /\ UNCHANGED call
       ELSE IF MEMORY_EXPORT \notin exports
       THEN Fail(HostErr("MemoryNotFound", "", <<>>)) /\ UNCHANGED call
       ELSE /\ call' = [call EXCEPT !.ptr = INPUT_PTR,
                                    !.buf = SubSeq(enc.out, 1, enc.len)]
            /\ pc' = "Writing"
            /\ log' = Append(log, "Writing")
            /\ UNCHANGED result
    /\ UNCHANGED <<exports, memSize, mem, arena, ret, ncalls, codecVars, cacheVars, sliceVars, alog, env, lru>>

\* CallRawWriting with the result of view.write dropped
CallRawWritingUnchecked ==
    /\ pc = "Writing" /\ call.entry = "call_raw"
    /\ mem' = IF InBounds(call.ptr, Len(call.buf), memSize)
              THEN MemWrite(mem, call.ptr, call.buf) ELSE mem
    /\ pc' = "Invoked"
    /\ log' = log \o (IF InBounds(call.ptr, Len(call.buf), memSize)
                         THEN <<"write">> ELSE <<>>) \o <<"Invoked">>
    /\ UNCHANGED <<exports, memSize, arena, call, ret, result, ncalls, codecVars, cacheVars, sliceVars, alog, env, lru>>

\* WasmInstance::call_raw: write the framed input at the fixed offset
CallRawWriting ==
    /\ pc = "Writing" /\ call.entry = "call_raw"
    /\ IF ~InBounds(call.ptr, Len(call.buf), memSize)
       THEN Fail(HostErr("MemoryAccess", "write", <<>>)) /\ UNCHANGED mem
       ELSE /\ mem' = MemWrite(mem, call.ptr, call.buf)
            /\ pc' = "Invoked"
            /\ log' = log \o <<"write", "Invoked">>
            /\ UNCHANGED result
    /\ UNCHANGED <<exports, memSize, arena, call, ret, ncalls, codecVars, cacheVars, sliceVars, alog, env, lru>>

\* func.call(store, [ptr, len]): the guest runs; trapKind names the error a
\* trap is reported as
InvokeExport(entry, trapKind) ==
    /\ pc = "Invoked" /\ call.entry = entry
    /\ \E o \in GuestOutcomes :
          LET g == GuestRun(o, arena, mem, memSize) IN
          /\ mem' = g.mem
          /\ arena' = g.arena
          /\ ret' = [kind |-> g.kind, raw |-> g.raw, cause |-> g.cause]
          /\ IF g.kind = "trap"
             THEN /\ result' = HostErr(trapKind, g.cause, <<>>)
                  /\ pc' = "Failed"
                  /\ log' = log \o <<"invoke", "Failed">>
             ELSE /\ pc' = "Reading"
                  /\ log' = log \o <<"invoke", "Reading">>
                  /\ UNCHANGED result
    /\ UNCHANGED <<exports, memSize, call, ncalls, codecVars, cacheVars, sliceVars, alog, env, lru>>

\* WasmInstance::call_raw: every trap is mapped to HostError::Runtime
CallRawInvoke == InvokeExport("call_raw", "Runtime")

\* WasmInstance::call_raw from "Parse result" on: the result, and whether
\* guest memory was read
CallRawParse(r, m, size) ==
    IF r.kind # "i64" THEN [res |-> HostErr("InvalidReturn", "", <<>>), read |-> FALSE]
    ELSE LET wasm_result == r.raw
             slice == ResultSlice(wasm_result)
         IN
         IF SliceIsEmpty(slice)
         THEN [res |-> IF ResultIsErr(wasm_result)
                       THEN HostErr("GuestError", "empty error", <<>>)
                       ELSE HostOk(<<>>),
               read |-> FALSE]
         ELSE IF ~InBounds(AsUsize(slice.ptr), AsUsize(slice.len), size)
         THEN [res |-> HostErr("MemoryAccess", "read", <<>>), read |-> FALSE]
         ELSE LET response == MemRead(m, AsUsize(slice.ptr), AsUsize(slice.len))
                  envelope == decode_envelope(response)
              IN
              IF ~envelope.ok
              THEN [res |-> HostErr("Deserialization", envelope.err, <<>>),
                    read |-> TRUE]
              ELSE IF ResultIsErr(wasm_result) \/ HeaderIsError(envelope.header)
              THEN [res |-> HostErr("GuestError", "payload",
                                    Utf8Lossy(envelope.payload)),
                    read |-> TRUE]
              ELSE [res |-> HostOk(envelope.payload), read |-> TRUE]

\* the call returns what the parse of the guest's return value gives
Finish(p) ==
    /\ result' = p.res
    /\ pc' = IF p.res.status = "ok" THEN "Done" ELSE "Failed"
    /\ log' = log \o (IF p.read THEN <<"read">> ELSE <<>>)
                  \o <<IF p.res.status = "ok" THEN "Done" ELSE "Failed">>

CallRawReading ==
    /\ pc = "Reading" /\ call.entry = "call_raw"
    /\ Finish(CallRawParse(ret, mem, memSize))
    /\ UNCHANGED <<exports, memSize, mem, arena, call, ret, ncalls, codecVars, cacheVars, sliceVars, alog, env, lru>>

\* guest::call: get memory and the allocate export, allocate the input
GuestCallReady ==
    /\ pc = "Ready" /\ call.entry = "guest_call"
    /\ IF MEMORY_EXPORT \notin exports
       THEN Fail(HostErr("RuntimeError", "Failed to get memory", <<>>))
            /\ UNCHANGED <<call, arena>>
       ELSE IF ALLOCATE_EXPORT \notin exports
       THEN Fail(HostErr("RuntimeError", "Failed to get allocate", <<>>))
            /\ UNCHANGED <<call, arena>>
       ELSE LET al == ArenaAlloc(arena, Len(call.args)) IN
            /\ arena' = al.arena
            /\ call' = [call EXCEPT !.ptr = al.ptr, !.buf = call.args]
            /\ pc' = "Writing"
            /\ log' = log \o <<"allocate", "Writing">>
            /\ UNCHANGED result
    /\ UNCHANGED <<exports, memSize, mem, ret, ncalls, codecVars, cacheVars, sliceVars, alog, env, lru>>

\* guest::call: write the input, then look up the function
GuestCallWriting ==
    /\ pc = "Writing" /\ call.entry = "guest_call"
    /\ IF ~InBounds(call.ptr, Len(call.buf), memSize)
       THEN Fail(HostErr("RuntimeError", "Failed to write input", <<>>))
            /\ UNCHANGED mem
       ELSE /\ mem' = MemWrite(mem, call.ptr, call.buf)
            /\ IF ~HasFunction(call.name)
               THEN /\ result' = HostErr("RuntimeError", "Function not found", <<>>)
                    /\ pc' = "Failed"
                    /\ log' = log \o <<"write", "Failed">>
               ELSE /\ pc' = "Invoked"
                    /\ log' = log \o <<"write", "Invoked">>
                    /\ UNCHANGED result
    /\ UNCHANGED <<exports, memSize, arena, call, ret, ncalls, codecVars, cacheVars, sliceVars, alog, env, lru>>

\* guest::call: a trap is passed on as the RuntimeError it is
GuestCallInvoke == InvokeExport("guest_call", "RuntimeError")

\* guest::call from "Parse the result" on
GuestCallParse(r, m, size) ==
    IF r.kind # "i64"
    THEN [res |-> HostErr("RuntimeError", "Invalid return type from guest", <<>>),
          read |-> FALSE]
    ELSE LET wasm_result == r.raw
             slice == ResultSlice(wasm_result)
         IN
         IF SliceIsEmpty(slice) THEN [res |-> HostOk(<<>>), read |-> FALSE]
         ELSE IF ~InBounds(AsUsize(slice.ptr), AsUsize(slice.len), size)
         THEN [res |-> HostErr("RuntimeError", "Failed to read result", <<>>),
               read |-> FALSE]
         ELSE [res |-> HostOk(MemRead(m, AsUsize(slice.ptr), AsUsize(slice.len))),
               read |-> TRUE]

GuestCallReading ==
    /\ pc = "Reading" /\ call.entry = "guest_call"
    /\ Finish(GuestCallParse(ret, mem, memSize))
    /\ UNCHANGED <<exports, memSize, mem, arena, call, ret, ncalls, codecVars, cacheVars, sliceVars, alog, env, lru>>

-----------------------------------------------------------------------------
(* crates/host/src/engine.rs and module.rs: the engine, the module cache    *)
(* it owns, and the threads that compile through them.                     *)

\* most operations (compile, compile_cached, clear_cache) started on one engine
MaxCacheOps == 3

Threads == {"t1", "t2"}
CacheKeys == {"k1", "k2"}

\* WASM bytes a caller may supply: two modules that compile, one that does not
WasmInputs == {"wasm_a", "wasm_b", "not_wasm"}
WasmValid(w) == w # "not_wasm"

\* EngineConfig: the operation budget, NaN canonicalisation, whether a cache
\* directory is set, and the static memory bound
EngineConfigs ==
    {[metering_limit |-> l, canonicalize_nans |-> n, cache_path |-> p,
      static_memory_bound |-> 16384] :
        l \in {1000}, n \in BOOLEAN, p \in BOOLEAN}

\* the engine WasmEngine::new builds: the compiler with the metering middleware
\* pushed, NaN canonicalisation as configured, the tunables set
EngineFromConfig(c) ==
    [metering |-> <<c.metering_limit>>,
     canonicalize_nans |-> c.canonicalize_nans,
     static_memory_bound |-> <<c.static_memory_bound>>]

\* wasmer's Engine::default(): the default compiler, no middleware, no tunables
EngineDefault ==
    [metering |-> <<>>, canonicalize_nans |-> FALSE, static_memory_bound |-> <<>>]

\* the engine field ModuleCache::new fills in
CacheEngine == EngineDefault

\* a compiled module: the engine that compiled it and the bytes it came from;
\* intact is FALSE for a module deserialised from an incomplete artifact
NoModule == [engine |-> EngineDefault, wasm |-> "", intact |-> FALSE]

\* wasmer's Module::new(engine, bytes)
ModuleNew(engine, w) ==
    IF WasmValid(w)
    THEN [ok |-> TRUE, module |-> [engine |-> engine, wasm |-> w, intact |-> TRUE]]
    ELSE [ok |-> FALSE, module |-> NoModule]

\* a file of the cache directory
NoFile == [exists |-> FALSE, whole |-> FALSE, module |-> NoModule]

\* ModuleCache::load_from_disk: the modules it may return (<<>> is None).  A
\* partial artifact goes through the unsafe Module::deserialize, which may
\* reject it or hand back a module that is not the one that was written.
LoadFromDisk(c, d, key) ==
    IF ~c.cache_path \/ ~d[key].exists THEN {<<>>}
    ELSE IF d[key].whole THEN {<<d[key].module>>}
    ELSE {<<>>, <<[d[key].module EXCEPT !.intact = FALSE]>>}

\* ModuleCache::save_to_disk: the directory contents it may leave behind; every
\* failure is logged and swallowed
SaveToDisk(c, d, key, module) ==
    IF ~c.cache_path THEN {d}
    ELSE {d,
          [d EXCEPT ![key] = [exists |-> TRUE, whole |-> TRUE, module |-> module]],
          [d EXCEPT ![key] = [exists |-> TRUE, whole |-> FALSE, module |-> module]]}

NoCacheRes ==
    [op |-> "none", ok |-> FALSE, key |-> "", handle |-> 0, module |-> NoModule,
     err |-> "", expect |-> {}]

IdleThread ==
    [pc |-> "idle", op |-> "none", key |-> "", wasm |-> "", module |-> NoModule,
     handle |-> 0, expect |-> {}, res |-> NoCacheRes]

\* the operation of thread t returns
CacheReturn(t, ok, handle, module, err) ==
    [th EXCEPT ![t] = [IdleThread EXCEPT
        !.res = [op |-> th[t].op, ok |-> ok, key |-> th[t].key, handle |-> handle,
                 module |-> module, err |-> err, expect |-> th[t].expect]]]

\* ModuleCache::get returns Ok(handle): remember the handle as handed out
GetReturnsOk(t, handle) ==
    /\ th' = CacheReturn(t, TRUE, handle, heap[handle], "")
    /\ settled' = [settled EXCEPT ![th[t].key] = @ \cup {handle}]

\* WasmEngine::compile: compile with the engine's own inner engine
Compile(t) ==
    /\ th[t].pc = "idle" /\ nops < MaxCacheOps
    /\ \E w \in WasmInputs :
          LET r == ModuleNew(EngineFromConfig(config), w) IN
          th' = [th EXCEPT ![t] = [IdleThread EXCEPT
                    !.res = [NoCacheRes EXCEPT
                               !.op = "compile", !.ok = r.ok, !.module = r.module,
                               !.err = IF r.ok THEN "" ELSE "Compilation"]]]
    /\ nops' = nops + 1
    /\ UNCHANGED <<config, modules, heap, disk, settled, codecVars, callVars, sliceVars, alog, env, lru>>

\* WasmEngine::compile_cached: enter ModuleCache::get
CompileCached(t) ==
    /\ th[t].pc = "idle" /\ nops < MaxCacheOps
    /\ \E k \in CacheKeys, w \in WasmInputs :
          th' = [th EXCEPT ![t] = [IdleThread EXCEPT
                    !.pc = "check_memory", !.op = "get", !.key = k, !.wasm = w,
                    !.expect = settled[k]]]
    /\ nops' = nops + 1
    /\ UNCHANGED <<config, modules, heap, disk, settled, codecVars, callVars, sliceVars, alog, env, lru>>

\* ModuleCache::get: look the key up under the read lock
GetCheckMemory(t) ==
    /\ th[t].pc = "check_memory"
    /\ IF modules[th[t].key] # 0
       THEN GetReturnsOk(t, modules[th[t].key])
       ELSE /\ th' = [th EXCEPT ![t].pc = "load_from_disk"]
            /\ UNCHANGED settled
    /\ UNCHANGED <<config, modules, heap, disk, nops, codecVars, callVars, sliceVars, alog, env, lru>>

\* ModuleCache::get: try the cache directory, with no lock held
GetLoadFromDisk(t) ==
    /\ th[t].pc = "load_from_disk"
    /\ \E loaded \in LoadFromDisk(config, disk, th[t].key) :
          IF loaded # <<>>
          THEN /\ heap' = Append(heap, loaded[1])
               /\ th' = [th EXCEPT ![t].pc = "insert_loaded",
                                   ![t].handle = Len(heap) + 1]
          ELSE /\ th' = [th EXCEPT ![t].pc = "compile"]
               /\ UNCHANGED heap
    /\ UNCHANGED <<config, modules, disk, settled, nops, codecVars, callVars, sliceVars, alog, env, lru>>

\* an insert that has to wait while another get compiles or does disk I/O,
\* as it would if that get kept a lock over these steps
GetInsertAfterOthers(t) ==
    /\ th[t].pc \in {"insert_loaded", "insert"}
    /\ \A u \in Threads \ {t} : th[u].pc \notin {"load_from_disk", "compile", "save_to_disk"}
    /\ modules' = [modules EXCEPT ![th[t].key] = th[t].handle]
    /\ GetReturnsOk(t, th[t].handle)
    /\ UNCHANGED <<config, heap, disk, nops, codecVars, callVars, sliceVars, alog, env, lru>>

\* ModuleCache::get: insert the module under the write lock and return it
GetInsert(t) ==
    /\ th[t].pc \in {"insert_loaded", "insert"}
    /\ modules' = [modules EXCEPT ![th[t].key] = th[t].handle]
    /\ GetReturnsOk(t, th[t].handle)
    /\ UNCHANGED <<config, heap, disk, nops, codecVars, callVars, sliceVars, alog, env, lru>>

\* a get whose failed compilation leaves an empty file behind for the key
GetCompileTouchingFile(t) ==
    /\ th[t].pc = "compile"
    /\ LET r == ModuleNew(CacheEngine, th[t].wasm) IN
       IF r.ok
       THEN /\ th' = [th EXCEPT ![t].pc = "save_to_disk", ![t].module = r.module]
            /\ disk' = disk
       ELSE /\ th' = CacheReturn(t, FALSE, 0, NoModule, "Compilation")
            /\ disk' = [disk EXCEPT ![th[t].key] =
                            [exists |-> config.cache_path, whole |-> FALSE,
                             module |-> NoModule]]
    /\ UNCHANGED <<config, modules, heap, settled, nops, codecVars, callVars, sliceVars, alog, env, lru>>

\* ModuleCache::get: compile the supplied bytes with the cache's engine
GetCompile(t) ==
    /\ th[t].pc = "compile"
    /\ LET r == ModuleNew(CacheEngine, th[t].wasm) IN
       IF r.ok
       THEN th' = [th EXCEPT ![t].pc = "save_to_disk", ![t].module = r.module]
       ELSE th' = CacheReturn(t, FALSE, 0, NoModule, "Compilation")
    /\ UNCHANGED <<config, modules, heap, disk, settled, nops, codecVars, callVars, sliceVars, alog, env, lru>>

\* a get that gives up when the artifact could not be written whole
GetSaveToDiskOrFail(t) ==
    /\ th[t].pc = "save_to_disk"
    /\ disk' \in SaveToDisk(config, disk, th[t].key, th[t].module)
    /\ IF disk'[th[t].key].exists /\ disk'[th[t].key].whole
       THEN /\ heap' = Append(heap, th[t].module)
            /\ th' = [th EXCEPT ![t].pc = "insert", ![t].handle = Len(heap) + 1]
       ELSE /\ heap' = heap
            /\ th' = CacheReturn(t, FALSE, 0, NoModule, "Io")
    /\ UNCHANGED <<config, modules, settled, nops, codecVars, callVars, sliceVars, alog, env, lru>>

\* ModuleCache::get: persist best-effort, then wrap the module in its Arc
GetSaveToDisk(t) ==
    /\ th[t].pc = "save_to_disk"
    /\ disk' \in SaveToDisk(config, disk, th[t].key, th[t].module)
    /\ heap' = Append(heap, th[t].module)
    /\ th' = [th EXCEPT ![t].pc = "insert", ![t].handle = Len(heap) + 1]
    /\ UNCHANGED <<config, modules, settled, nops, codecVars, callVars, sliceVars, alog, env, lru>>

\* ModuleCache::len: the number of entries of the in-memory map
ModuleCacheLen(ms) == Cardinality({k \in CacheKeys : ms[k] # 0})

\* a clear that also removes the artifacts of the cache directory
ClearRemovingFiles(t) ==
    /\ th[t].pc = "idle" /\ nops < MaxCacheOps
    /\ modules' = [k \in CacheKeys |-> 0]
    /\ disk' = [k \in CacheKeys |-> NoFile]
    /\ settled' = [k \in CacheKeys |-> {}]
    /\ th' = [u \in Threads |->
                IF u = t
                THEN [IdleThread EXCEPT !.res = [NoCacheRes EXCEPT !.op = "clear", !.ok = TRUE]]
                ELSE [th[u] EXCEPT !.expect = {}]]
    /\ nops' = nops + 1
    /\ UNCHANGED <<config, heap, codecVars, callVars, sliceVars, alog, env, lru>>

\* ModuleCache::clear (WasmEngine::clear_cache): empty the map under the write lock
Clear(t) ==
    /\ th[t].pc = "idle" /\ nops < MaxCacheOps
    /\ modules' = [k \in CacheKeys |-> 0]
    /\ settled' = [k \in CacheKeys |-> {}]
    /\ th' = [u \in Threads |->
                IF u = t
                THEN [IdleThread EXCEPT !.res = [NoCacheRes EXCEPT !.op = "clear", !.ok = TRUE]]
                ELSE [th[u] EXCEPT !.expect = {}]]
    /\ nops' = nops + 1
    /\ UNCHANGED <<config, heap, disk, codecVars, callVars, sliceVars, alog, env, lru>>

-----------------------------------------------------------------------------
(* crates/host/src/cache.rs: the size-bounded ModuleCache.  entries is a    *)
(* map from the keys present to (module, size, last_access).               *)

\* most operations (insert, get, clear) done on one size-bounded cache
MaxLruOps == 4

\* keys of one and of two bytes, and the modules stored under them
LruKeys == {<<1>>, <<2>>, <<3, 3>>}
LruModules == {"module_a", "module_b"}

\* limits below one entry's size, for two entries, and for all three
LruMaxSizes == {1000, 2051, 3076}

\* ModuleCache::new(max_size)
cache_new(max_size) ==
    [entries |-> [k \in {} |-> 0], max_size |-> max_size, current_size |-> 0,
     access_counter |-> 0]

\* ModuleCache::get(&self, key): Some(&module) as <<module>>, None as <<>>
cache_get(c, key) ==
    IF key \in DOMAIN c.entries THEN <<c.entries[key].module>> ELSE <<>>

\* ModuleCache::evict_oldest: remove the entry with the least last_access
evict_oldest(c) ==
    IF DOMAIN c.entries = {} THEN c
    ELSE LET key == CHOOSE k \in DOMAIN c.entries :
                        \A j \in DOMAIN c.entries :
                            c.entries[k].last_access <= c.entries[j].last_access
         IN [c EXCEPT !.entries = [k \in DOMAIN c.entries \ {key} |-> c.entries[k]],
                      !.current_size = @ - c.entries[key].size]

RECURSIVE EvictForRoom(_, _)
\* the loop of insert: evict while the new entry does not fit and entries remain
EvictForRoom(c, size) ==
    IF c.current_size + size > c.max_size /\ DOMAIN c.entries # {}
    THEN EvictForRoom(evict_oldest(c), size)
    ELSE c

\* ModuleCache::insert(key, module)
cache_insert(c, key, module) ==
    LET size == Len(key) + 1024
        room == EvictForRoom(c, size)
        counter == room.access_counter + 1
    IN [room EXCEPT
          !.access_counter = counter,
          !.entries = [k \in DOMAIN room.entries \cup {key} |->
                          IF k = key
                          THEN [module |-> module, size |-> size, last_access |-> counter]
                          ELSE room.entries[k]],
          !.current_size = @ + size]

\* ModuleCache::clear
cache_clear(c) == [c EXCEPT !.entries = [k \in {} |-> 0], !.current_size = 0]

\* the cache together with what its caller has seen: for each key the time
\* of its latest access by get or insert (0: none since it was last absent),
\* and of the last operation: what it was, what it found or evicted, which
\* entries the eviction loop kept, and the access times before it
LruStart(max_size) ==
    [cache |-> cache_new(max_size),
     touched |-> [k \in LruKeys |-> 0],
     tick |-> 0,
     last |-> [op |-> "new", key |-> <<>>, found |-> <<>>, evicted |-> {}, kept |-> {},
               before |-> [k \in LruKeys |-> 0]],
     nops |-> 0]

LruIdle == LruStart(0)

\* a caller inserts a module
LruInsert ==
    /\ lru.nops < MaxLruOps
    /\ \E key \in LruKeys, module \in LruModules :
          LET room == EvictForRoom(lru.cache, Len(key) + 1024)
              gone == DOMAIN lru.cache.entries \ DOMAIN room.entries
          IN lru' = [cache |-> cache_insert(lru.cache, key, module),
                     touched |-> [k \in LruKeys |->
                                    IF k = key THEN lru.tick + 1
                                    ELSE IF k \in gone THEN 0
                                    ELSE lru.touched[k]],
                     tick |-> lru.tick + 1,
                     last |-> [op |-> "insert", key |-> key, found |-> <<>>,
                               evicted |-> gone, kept |-> DOMAIN room.entries,
                               before |-> lru.touched],
                     nops |-> lru.nops + 1]
    /\ UNCHANGED <<codecVars, callVars, cacheVars, sliceVars, alog, env>>

\* a caller looks a key up
LruGet ==
    /\ lru.nops < MaxLruOps
    /\ \E key \in LruKeys :
          LET found == cache_get(lru.cache, key) IN
          lru' = [lru EXCEPT
                    !.touched = IF found # <<>> THEN [@ EXCEPT ![key] = lru.tick + 1] ELSE @,
                    !.tick = @ + 1,
                    !.last = [op |-> "get", key |-> key, found |-> found,
                              evicted |-> {}, kept |-> DOMAIN lru.cache.entries,
                              before |-> lru.touched],
                    !.nops = @ + 1]
    /\ UNCHANGED <<codecVars, callVars, cacheVars, sliceVars, alog, env>>

\* a caller clears the cache
LruClear ==
    /\ lru.nops < MaxLruOps
    /\ lru' = [cache |-> cache_clear(lru.cache),
               touched |-> [k \in LruKeys |-> 0],
               tick |-> lru.tick + 1,
               last |-> [op |-> "clear", key |-> <<>>, found |-> <<>>,
                         evicted |-> DOMAIN lru.cache.entries, kept |-> {},
                         before |-> lru.touched],
               nops |-> lru.nops + 1]
    /\ UNCHANGED <<codecVars, callVars, cacheVars, sliceVars, alog, env>>

IdleCache ==
    /\ config = [metering_limit |-> 1000, canonicalize_nans |-> TRUE,
                 cache_path |-> FALSE, static_memory_bound |-> 16384]
    /\ modules = [k \in CacheKeys |-> 0]
    /\ heap = <<>>
    /\ disk = [k \in CacheKeys |-> NoFile]
    /\ th = [t \in Threads |-> IdleThread]
    /\ settled = [k \in CacheKeys |-> {}]
    /\ nops = 0

-----------------------------------------------------------------------------
IdleCodec ==
    /\ payload = <<>> /\ flags = 0 /\ output = <<>> /\ wire = <<>>
    /\ encRes = [ok |-> FALSE, len |-> 0, err |-> [kind |-> "NotCalled"]]
    /\ decRes = DecodeErr("NotCalled")
    /\ cpc = "idle"
    /\ twin = [wire |-> <<>>, res |-> DecodeErr("NotCalled")]

IdleSlice ==
    /\ sin = [a |-> WasmSliceEmpty, b |-> WasmSliceEmpty, o |-> U32(0)]
    /\ sout = [op |-> "none"]

\* most arena operations in a row
MaxArenaOps == 4

IdleCall ==
    /\ exports = {} /\ memSize = 0 /\ mem = <<>> /\ arena = EmptyArena
    /\ pc = "Idle" /\ ret = NoRet /\ result = NoResult /\ log = <<>> /\ ncalls = 0
    /\ call = [entry |-> "none", name |-> "", args |-> <<>>, ptr |-> 0, buf |-> <<>>]

\* WasmInstance::new: a fresh store and instance; nothing is called yet
Init ==
    /\ IdleCodec
    /\ IdleCache
    /\ IdleSlice
    /\ lru = LruIdle
    /\ alog = <<>>
    /\ env = EnvNew
    /\ \E i \in Instances :
          /\ exports = i.exports
          /\ memSize = i.pages * PAGE_SIZE
    /\ mem = <<>>
    /\ arena = EmptyArena
    /\ pc = "Idle"
    /\ call = [entry |-> "none", name |-> "", args |-> <<>>, ptr |-> 0, buf |-> <<>>]
    /\ ret = NoRet
    /\ result = NoResult
    /\ log = <<>>
    /\ ncalls = 0

Next ==
    \/ BeginCall
    \/ CallRawReady
    \/ CallRawWriting
    \/ CallRawInvoke
    \/ CallRawReading
    \/ GuestCallReady
    \/ GuestCallWriting
    \/ GuestCallInvoke
    \/ GuestCallReading

Spec == Init /\ [][Next]_vars

-----------------------------------------------------------------------------
(* What a finished call can be judged by: the slice the guest returned and  *)
(* the envelope that lies there (guest memory does not change between the  *)
(* export's return and the end of the call).                               *)

CallOver == pc \in {"Done", "Failed"}
InLog(e) == \E i \in 1..Len(log) : log[i] = e
RetSlice == ResultSlice(ret.raw)
RetReadable == InBounds(AsUsize(RetSlice.ptr), AsUsize(RetSlice.len), memSize)
RetEnvelope == decode_envelope(MemRead(mem, AsUsize(RetSlice.ptr), AsUsize(RetSlice.len)))

-----------------------------------------------------------------------------
(* C1: whether a call ends in success or failure, the host invokes the      *)
(* guest's reset_arena export before the next call starts, so the guest    *)
(* arena holds no allocations at the start of every call.                  *)
C1_ArenaEmptyAtCallStart ==
    pc = "Ready" => arena.allocs = <<>>

-----------------------------------------------------------------------------
(* C2: every host call moves through Ready, Writing, Invoked, Reading in    *)
(* that order and ends in exactly one of Done or Failed; the input is      *)
(* completely written to guest memory before the export is invoked, guest  *)
(* memory is read for the result only after the invocation has returned,   *)
(* and a failure in any phase ends the call in Failed with no later phase. *)
LogRank(e) ==
    CASE e = "Ready" -> 1 [] e = "allocate" -> 2 [] e = "Writing" -> 3
      [] e = "write" -> 4 [] e = "Invoked" -> 5 [] e = "invoke" -> 6
      [] e = "Reading" -> 7 [] e = "read" -> 8 [] OTHER -> 9

C2_PhaseOrder ==
    pc # "Idle" =>
        /\ log[1] = "Ready" /\ log[Len(log)] = pc
        /\ \A i, j \in 1..Len(log) : i < j => LogRank(log[i]) < LogRank(log[j])
        /\ InLog("Invoked") => (InLog("Writing") /\ InLog("write"))
        /\ InLog("invoke") => InLog("Invoked")
        /\ InLog("Reading") => (InLog("invoke") /\ ret.kind \in {"i64", "other"})
        /\ InLog("read") => (InLog("Reading") /\ ret.kind = "i64")
        /\ InLog("Done") => InLog("Reading")
        /\ ret.kind # "none" => InLog("invoke")
        /\ InLog("write") =>
              /\ MemRead(mem, call.ptr, Len(call.buf)) = call.buf \/ InLog("invoke")
              /\ IF call.entry = "call_raw"
                 THEN /\ decode_envelope(call.buf).ok
                      /\ decode_envelope(call.buf).payload = call.args
                 ELSE call.buf = call.args
        /\ (result.status = "ok") = (pc = "Done")
        /\ (result.status = "err") = (pc = "Failed")

C2_Witness ==
    /\ pc = "Done" /\ call.entry = "call_raw" /\ call.args = <<7>>
    /\ log = <<"Ready", "Writing", "write", "Invoked", "invoke", "Reading", "read", "Done">>

-----------------------------------------------------------------------------
(* C3: a host call returns success bytes only when the packed result has    *)
(* bit 63 clear and the decoded envelope has IsError clear; whenever the   *)
(* guest signals an error with a non-empty slice the host yields           *)
(* GuestError(msg) with msg the envelope payload (as text), and otherwise  *)
(* it returns exactly the payload bytes; for both entry points.  Stated    *)
(* for slices that lie in memory and hold a well-formed envelope.          *)
C3_ErrorSignalHonoured ==
    (CallOver /\ ret.kind = "i64" /\ ~SliceIsEmpty(RetSlice)) =>
        /\ result.status = "ok" => ~ResultIsErr(ret.raw)
        /\ (RetReadable /\ RetEnvelope.ok)
              => IF ResultIsErr(ret.raw) \/ HeaderIsError(RetEnvelope.header)
                 THEN /\ result.status = "err"
                      /\ result.err.kind = "GuestError"
                      /\ result.err.bytes = Utf8Lossy(RetEnvelope.payload)
                 ELSE result = HostOk(RetEnvelope.payload)

-----------------------------------------------------------------------------
(* C4: when the guest returns a packed result whose slice has length 0, the *)
(* host yields GuestError("empty error") if bit 63 is set and empty bytes  *)
(* if it is clear, without reading guest memory, for every pointer value   *)
(* and for both entry points.                                              *)
C4_EmptySlice ==
    (CallOver /\ ret.kind = "i64" /\ SliceIsEmpty(RetSlice)) =>
        /\ ~InLog("read")
        /\ IF ResultIsErr(ret.raw)
           THEN result = HostErr("GuestError", "empty error", <<>>)
           ELSE result = HostOk(<<>>)

-----------------------------------------------------------------------------
(* C5: when guest execution traps because the metering budget is exhausted, *)
(* the host call reports HostError::MeteringExceeded, which converts to    *)
(* GuestCallError::MeteringExceeded, distinct from the Runtime(msg)        *)
(* reported for other traps.                                               *)
C5_MeteringExceeded ==
    (CallOver /\ call.entry = "call_raw" /\ ret.kind = "trap") =>
        IF ret.cause = "metering"
        THEN /\ result.err.kind = "MeteringExceeded"
             /\ HostErrorToWasmError(result.err.kind) = <<"GuestCall", "MeteringExceeded">>
        ELSE result.err.kind = "Runtime"

-----------------------------------------------------------------------------
(* The engine and its cache, used by two threads.                          *)

\* WasmEngine::new(config): an empty map, whatever the cache directory holds
InitCache ==
    /\ config \in EngineConfigs
    /\ modules = [k \in CacheKeys |-> 0]
    /\ heap = <<>>
    /\ disk = [k \in CacheKeys |-> NoFile]
    /\ th = [t \in Threads |-> IdleThread]
    /\ settled = [k \in CacheKeys |-> {}]
    /\ nops = 0
    /\ IdleCodec
    /\ IdleCall
    /\ IdleSlice
    /\ lru = LruIdle
    /\ alog = <<>>
    /\ env = EnvNew

\* ModuleCache::new(max_size) of cache.rs, used on its own
InitLru ==
    /\ \E max_size \in LruMaxSizes : lru = LruStart(max_size)
    /\ alog = <<>>
    /\ env = EnvNew
    /\ IdleCodec
    /\ IdleCall
    /\ IdleCache
    /\ IdleSlice

NextLru == LruInsert \/ LruGet \/ LruClear

SpecLru == InitLru /\ [][NextLru]_vars

NextCache ==
    \E t \in Threads :
        \/ Compile(t)
        \/ CompileCached(t)
        \/ GetCheckMemory(t)
        \/ GetLoadFromDisk(t)
        \/ GetCompile(t)
        \/ GetSaveToDisk(t)
        \/ GetInsert(t)
        \/ Clear(t)

SpecCache == InitCache /\ [][NextCache]_vars

\* ModuleCache::new(Some(dir)) used on its own through get and clear: the
\* cache of an engine whose configuration names a cache directory
InitModuleCache ==
    /\ InitCache
    /\ config.cache_path
    /\ config.canonicalize_nans

NextModuleCache ==
    \E t \in Threads :
        \/ CompileCached(t)
        \/ GetCheckMemory(t)
        \/ GetLoadFromDisk(t)
        \/ GetCompile(t)
        \/ GetSaveToDisk(t)
        \/ GetInsert(t)
        \/ Clear(t)

SpecModuleCache == InitModuleCache /\ [][NextModuleCache]_vars

-----------------------------------------------------------------------------
(* C6: every module a WasmEngine hands out, through compile and through     *)
(* compile_cached alike, is compiled by the engine built from that         *)
(* WasmEngine's configuration (metering with config.metering_limit, NaN    *)
(* canonicalisation, memory tunables); no path returns a module compiled   *)
(* by a different, unmetered engine.                                       *)
C6_CompiledByConfiguredEngine ==
    \A t \in Threads :
        (th[t].res.op \in {"compile", "get"} /\ th[t].res.ok)
            => th[t].res.module.engine = EngineFromConfig(config)

-----------------------------------------------------------------------------
(* C7: after a successful get(k, b), every later get(k, b') on the same     *)
(* cache with no clear in between returns the same reference-counted       *)
(* handle, whatever the bytes b' are; the bytes are not compiled again.    *)
C7_SameHandle ==
    \A t \in Threads :
        (th[t].res.op = "get" /\ th[t].res.expect # {})
            => (th[t].res.ok /\ th[t].res.expect = {th[t].res.handle})

-----------------------------------------------------------------------------
(* WasmSlice and WasmResult called on their own, over u32 values from both  *)
(* ends of the range and around 2^31.                                      *)

InitSlice ==
    /\ LET u32s == {U32(0), U32(50), U32(100), U32(120),
                    [hi |-> 32767, lo |-> 65535], [hi |-> 32768, lo |-> 0], U32Max}
           slices == {WasmSliceNew(p, l) : p \in u32s, l \in u32s}
       IN sin \in [a : slices, b : slices, o : u32s]
    /\ sout = [op |-> "none"]
    /\ IdleCodec
    /\ IdleCall
    /\ IdleCache
    /\ lru = LruIdle
    /\ alog = <<>>
    /\ env = EnvNew

\* WasmResult::ok(a) and WasmResult::err(a), and what they answer
MakeResult ==
    /\ sout.op = "none"
    /\ sout' = [op |-> "result",
                okIsOk |-> ResultIsOk(ResultOk(sin.a)),
                okIsErr |-> ResultIsErr(ResultOk(sin.a)),
                okSlice |-> ResultSlice(ResultOk(sin.a)),
                errIsErr |-> ResultIsErr(ResultErr(sin.a)),
                errIsOk |-> ResultIsOk(ResultErr(sin.a)),
                errSlice |-> ResultSlice(ResultErr(sin.a))]
    /\ UNCHANGED <<sin, codecVars, callVars, cacheVars, alog, env, lru>>

\* WasmResult::from_raw of the 64-bit value whose words are a.ptr and a.len
FromRaw ==
    /\ sout.op = "none"
    /\ LET raw == [hi |-> sin.a.ptr, lo |-> sin.a.len]
           r == ResultFromRaw(raw)
       IN sout' = [op |-> "from_raw", raw |-> raw, back |-> ResultIntoRaw(r),
                   isOk |-> ResultIsOk(r), isErr |-> ResultIsErr(r)]
    /\ UNCHANGED <<sin, codecVars, callVars, cacheVars, alog, env, lru>>

\* pack then unpack of a, and unpack then pack of the 64-bit value of b's words
PackUnpack ==
    /\ sout.op = "none"
    /\ LET x == [hi |-> sin.b.ptr, lo |-> sin.b.len] IN
       sout' = [op |-> "pack", packed |-> SlicePack(sin.a),
                unpacked |-> SliceUnpack(SlicePack(sin.a)),
                x |-> x, repacked |-> SlicePack(SliceUnpack(x))]
    /\ UNCHANGED <<sin, codecVars, callVars, cacheVars, alog, env, lru>>

\* a.overlaps(b), b.overlaps(a), a.contains(o)
Overlaps ==
    /\ sout.op = "none"
    /\ sout' = [op |-> "overlaps",
                ab |-> SliceOverlaps(sin.a, sin.b),
                ba |-> SliceOverlaps(sin.b, sin.a),
                contains |-> SliceContains(sin.a, sin.o)]
    /\ UNCHANGED <<sin, codecVars, callVars, cacheVars, alog, env, lru>>

NextSlice == MakeResult \/ FromRaw \/ PackUnpack \/ Overlaps

SpecSlice == InitSlice /\ [][NextSlice]_vars

-----------------------------------------------------------------------------
(* The guest arena called on its own, in a guest with one page of memory.  *)

InitArena ==
    /\ lru = LruIdle
    /\ alog = <<>>
    /\ env = EnvNew
    /\ arena = EmptyArena /\ mem = <<>> /\ memSize = PAGE_SIZE
    /\ exports = {} /\ pc = "Idle" /\ ret = NoRet /\ result = NoResult
    /\ log = <<>> /\ ncalls = 0
    /\ call = [entry |-> "none", name |-> "", args |-> <<>>, ptr |-> 0, buf |-> <<>>]
    /\ IdleCodec
    /\ IdleCache
    /\ IdleSlice

\* what an operation leaves in the log: the pointer it returned, the offset of
\* that pointer in the newest chunk, and allocated_bytes() after it
ArenaEvent(op, len, ptr, a) ==
    [op |-> op, len |-> len, ptr |-> ptr,
     offset |-> IF a.chunks = <<>> THEN 0 ELSE ptr - a.chunks[Len(a.chunks)].base,
     bytes |-> a.bytes]

\* GuestArena::alloc(len)
Alloc ==
    /\ Len(alog) < MaxArenaOps
    /\ \E len \in {0, 1, 100, 600} :
          LET al == ArenaAlloc(arena, len) IN
          /\ arena' = al.arena
          /\ alog' = Append(alog, ArenaEvent("alloc", len, al.ptr, al.arena))
    /\ UNCHANGED <<exports, memSize, mem, pc, call, ret, result, log, ncalls,
                   codecVars, cacheVars, sliceVars, env, lru>>

\* GuestArena::alloc_copy(data)
AllocCopy ==
    /\ Len(alog) < MaxArenaOps
    /\ \E data \in {<<7>>, <<8, 9>>} :
          LET c == ArenaAllocCopy(arena, mem, memSize, data) IN
          /\ ~c.trap
          /\ arena' = c.arena
          /\ mem' = c.mem
          /\ alog' = Append(alog, ArenaEvent("alloc_copy", Len(data), c.ptr, c.arena))
    /\ UNCHANGED <<exports, memSize, pc, call, ret, result, log, ncalls,
                   codecVars, cacheVars, sliceVars, env, lru>>

\* GuestArena::reset
Reset ==
    /\ Len(alog) < MaxArenaOps
    /\ arena' = ArenaReset(arena)
    /\ alog' = Append(alog, ArenaEvent("reset", 0, arena'.next, arena'))
    /\ UNCHANGED <<exports, memSize, mem, pc, call, ret, result, log, ncalls,
                   codecVars, cacheVars, sliceVars, env, lru>>

\* the deallocate exports, called with an allocation of the arena or with a
\* (ptr, len) that allocate never returned
Deallocate ==
    /\ Len(alog) < MaxArenaOps
    /\ \E s \in {arena.allocs[i] : i \in DOMAIN arena.allocs}
                 \cup {[ptr |-> 0, len |-> 0], [ptr |-> 4000, len |-> 16]} :
          /\ arena' = GuestDeallocate(arena, s.ptr, s.len)
          /\ alog' = Append(alog, ArenaEvent("dealloc", s.len, s.ptr, arena'))
    /\ UNCHANGED <<exports, memSize, mem, pc, call, ret, result, log, ncalls,
                   codecVars, cacheVars, sliceVars, env, lru>>

NextArena == Alloc \/ AllocCopy \/ Reset \/ Deallocate

SpecArena == InitArena /\ [][NextArena]_vars

-----------------------------------------------------------------------------
(* The guest's return path and its calls of host imports, in a guest with  *)
(* one page of memory and a fresh arena.                                   *)

\* most guest-side calls in a row
MaxReturns == 2

\* return_ok(data), for data around the limit of its buffer (the largest
\* data that fits is tried on a fresh arena only)
ReturnOkCall ==
    /\ ncalls < MaxReturns
    /\ \E n \in {1, RETURN_OK_BUFFER - HEADER_SIZE + 1}
                 \cup (IF ncalls = 0 THEN {RETURN_OK_BUFFER - HEADER_SIZE} ELSE {}) :
          LET data == [i \in 1..n |-> (7 * i) % 256]
              g == ReturnOk(arena, mem, memSize, data)
          IN /\ call' = [entry |-> "return_ok", name |-> "", args |-> data,
                         ptr |-> 0, buf |-> <<>>]
             /\ ret' = [kind |-> g.kind, raw |-> g.raw, cause |-> g.cause]
             /\ arena' = g.arena
             /\ mem' = g.mem
    /\ ncalls' = ncalls + 1
    /\ UNCHANGED <<exports, memSize, pc, result, log, codecVars, cacheVars, sliceVars, alog, env, lru>>

\* return_err(message), for messages around the limit of its buffer
ReturnErrCall ==
    /\ ncalls < MaxReturns
    /\ \E n \in {0, RETURN_ERR_BUFFER - HEADER_SIZE, RETURN_ERR_BUFFER - HEADER_SIZE + 1} :
          LET message == [i \in 1..n |-> (7 * i) % 256]
              g == ReturnErr(arena, mem, memSize, message)
          IN /\ call' = [entry |-> "return_err", name |-> "", args |-> message,
                         ptr |-> 0, buf |-> <<>>]
             /\ ret' = [kind |-> g.kind, raw |-> g.raw, cause |-> g.cause]
             /\ arena' = g.arena
             /\ mem' = g.mem
    /\ ncalls' = ncalls + 1
    /\ UNCHANGED <<exports, memSize, pc, result, log, codecVars, cacheVars, sliceVars, alog, env, lru>>

\* host_call_raw(host_fn, args) against a host that answers with nothing, with
\* an envelope (IsError set or not), or with a cut envelope, and sets bit 63
\* or not; args that do not fit the request buffer are tried with one host
HostCallRaw ==
    /\ ncalls < MaxReturns
    /\ \E err \in BOOLEAN,
          bytes \in {<<>>, SubSeq(encode_with_envelope(<<5, 6>>, 0, Zeros(HEADER_SIZE + 2)).out,
                                  1, HEADER_SIZE + 1)}
                    \cup {encode_with_envelope(p, f, Zeros(HEADER_SIZE + Len(p))).out :
                            p \in {<<5>>, <<1, 2, 3, 4>>}, f \in {0, FLAG_IS_ERROR}} :
       \E args \in {<<7>>} \cup (IF bytes = <<>> /\ ~err
                                  THEN {Zeros(RETURN_OK_BUFFER - HEADER_SIZE + 1)}
                                  ELSE {}) :
          LET r == host_call_raw(arena, mem, memSize, args, [bytes |-> bytes, err |-> err])
          IN /\ call' = [entry |-> "host_call_raw", name |-> "", args |-> args,
                         ptr |-> 0, buf |-> bytes]
             /\ ret' = r.ret
             /\ result' = [ok |-> r.ok, payload |-> r.payload, err |-> r.err,
                           code |-> r.code]
             /\ arena' = r.arena
             /\ mem' = r.mem
    /\ ncalls' = ncalls + 1
    /\ UNCHANGED <<exports, memSize, pc, log, codecVars, cacheVars, sliceVars, alog, env, lru>>

NextGuest == ReturnOkCall \/ ReturnErrCall \/ HostCallRaw

SpecGuest == InitArena /\ [][NextGuest]_vars

\* the envelope the packed value of the last guest-side call points at
RetDecoded ==
    LET s == ResultSlice(ret.raw) IN
    decode_envelope(MemRead(mem, AsUsize(s.ptr), AsUsize(s.len)))

-----------------------------------------------------------------------------
-----------------------------------------------------------------------------
-----------------------------------------------------------------------------
(* C20: after GuestArena::reset, following any sequence of alloc and        *)
(* alloc_copy calls, allocated_bytes() returns 0 and the next allocation   *)
(* is placed at offset 0 of the arena's current chunk.                     *)
C20_ResetEmpties ==
    \A i \in 1..Len(alog) :
        alog[i].op = "reset" =>
            /\ alog[i].bytes = 0
            /\ (i < Len(alog) /\ alog[i + 1].op # "reset") => alog[i + 1].offset = 0

-----------------------------------------------------------------------------
(* An Env used on its own, as its public fields and methods allow, or the  *)
(* Env a WasmInstance holds; the memory has 1 page, or 32769 pages (more   *)
(* than 2^31 bytes), and holds four bytes of the module's data at 16.      *)

\* most Env operations in a row
MaxEnvOps == 2

InitEnv ==
    /\ IdleCodec
    /\ IdleCache
    /\ IdleSlice
    /\ lru = LruIdle
    /\ alog = <<>> /\ arena = EmptyArena /\ exports = {} /\ pc = "Idle"
    /\ ret = NoRet /\ result = NoResult /\ ncalls = 0
    /\ call = [entry |-> "none"]
    /\ mem = MemWrite(<<>>, 16, <<1, 2, 3, 4>>)
    /\ \/ /\ log = <<"WasmInstance::new">>
          /\ env = EnvNew
          /\ memSize = [hi |-> 1, lo |-> 0]
       \/ /\ log = <<"Env">>
          /\ env \in [memory : BOOLEAN, allocate : BOOLEAN, deallocate : BOOLEAN]
          /\ memSize \in {[hi |-> 1, lo |-> 0], [hi |-> Pow16 \div 2 + 1, lo |-> 0]}

\* Env::consume_bytes_from_guest(store, guest_ptr, len)
ConsumeBytes ==
    /\ ncalls < MaxEnvOps
    /\ \E s \in {WasmSliceNew(U32(0), U32(0)), WasmSliceNew(U32(16), U32(4)),
                  WasmSliceNew(U32(65532), U32(4)), WasmSliceNew(U32(65533), U32(4)),
                  WasmSliceNew(U32Max, U32(2)),
                  WasmSliceNew([hi |-> 32768, lo |-> 0], [hi |-> 32768, lo |-> 0]),
                  WasmSliceNew([hi |-> 32768, lo |-> 0], U32(4))} :
          /\ result' = consume_bytes_from_guest(env, mem, memSize, s.ptr, s.len)
          /\ call' = [entry |-> "consume_bytes_from_guest", slice |-> s]
    /\ ncalls' = ncalls + 1
    /\ UNCHANGED <<exports, memSize, mem, arena, pc, ret, log, codecVars, cacheVars,
                   sliceVars, alog, env, lru>>

\* Env::move_bytes_to_guest(store, bytes); the guest's allocate traps or
\* returns a pointer
MoveBytes ==
    /\ ncalls < MaxEnvOps
    /\ \E bytes \in {<<7>>, <<8, 9>>},
          a \in {[trap |-> TRUE, ptr |-> U32(0)]}
                \cup {[trap |-> FALSE, ptr |-> q] :
                        q \in {U32(1024), U32(65535), [hi |-> 32768, lo |-> 0]}} :
          LET r == move_bytes_to_guest(env, mem, memSize, bytes, a) IN
          /\ result' = r.res
          /\ ret' = [kind |-> "i64", raw |-> r.raw, cause |-> "none"]
          /\ mem' = r.mem
          /\ call' = [entry |-> "move_bytes_to_guest", bytes |-> bytes, alloc |-> a,
                      allocs |-> r.allocs]
    /\ ncalls' = ncalls + 1
    /\ UNCHANGED <<exports, memSize, arena, pc, log, codecVars, cacheVars,
                   sliceVars, alog, env, lru>>

\* Env::move_data_to_guest(store, data) for data an integer below 128, which
\* rmp_serde::to_vec_named writes as the one byte of a positive fixint
MoveData ==
    /\ ncalls < MaxEnvOps
    /\ \E data \in {5}, a \in {[trap |-> t, ptr |-> U32(1024)] : t \in BOOLEAN} :
          LET r == move_bytes_to_guest(env, mem, memSize, <<data>>, a) IN
          /\ result' = r.res
          /\ ret' = [kind |-> "i64", raw |-> r.raw, cause |-> "none"]
          /\ mem' = r.mem
          /\ call' = [entry |-> "move_data_to_guest", bytes |-> <<data>>, alloc |-> a,
                      allocs |-> r.allocs]
    /\ ncalls' = ncalls + 1
    /\ UNCHANGED <<exports, memSize, arena, pc, log, codecVars, cacheVars,
                   sliceVars, alog, env, lru>>

\* Env::deallocate_in_guest(store, ptr, len); the guest's deallocate, when
\* called, returns or traps
DeallocateInGuest ==
    /\ ncalls < MaxEnvOps
    /\ \E trap \in BOOLEAN :
          /\ result' = deallocate_in_guest(env, trap)
          /\ call' = [entry |-> "deallocate_in_guest", trap |-> trap]
    /\ ncalls' = ncalls + 1
    /\ UNCHANGED <<exports, memSize, mem, arena, pc, ret, log, codecVars, cacheVars,
                   sliceVars, alog, env, lru>>

NextEnv == ConsumeBytes \/ MoveBytes \/ MoveData \/ DeallocateInGuest

SpecEnv == InitEnv /\ [][NextEnv]_vars

-----------------------------------------------------------------------------
(* C25: on an Env with any of memory, allocate, deallocate absent, each of *)
(* consume_bytes_from_guest, move_bytes_to_guest, move_data_to_guest and   *)
(* deallocate_in_guest fails with a MemoryAccess error; and the Env a      *)
(* WasmInstance holds after WasmInstance::new has all three present.       *)
C25_UninitialisedEnvFails ==
    /\ log = <<"WasmInstance::new">> => EnvIsInitialized(env)
    /\ (/\ ~(env.memory /\ env.allocate /\ env.deallocate)
        /\ call.entry \in {"consume_bytes_from_guest", "move_bytes_to_guest",
                           "move_data_to_guest", "deallocate_in_guest"})
       => (result.status = "err" /\ result.err.kind = "MemoryAccess")

-----------------------------------------------------------------------------
(* C26: for every u32 ptr and len, consume_bytes_from_guest on an Env with *)
(* a memory returns a MemoryAccess error when ptr + len, computed without  *)
(* wrap-around, exceeds the memory size, and otherwise a copy of the bytes *)
(* memory[ptr .. ptr+len); guest memory is unchanged in both cases.        *)
C26_ConsumeBoundsChecked ==
    [][(ncalls' = ncalls + 1 /\ call'.entry = "consume_bytes_from_guest" /\ env.memory) =>
        LET ptr == call'.slice.ptr
            len == call'.slice.len
            \* size - ptr, when ptr <= size
            left == IF ptr.lo = 0 THEN [hi |-> memSize.hi - ptr.hi, lo |-> 0]
                    ELSE [hi |-> memSize.hi - ptr.hi - 1, lo |-> Pow16 - ptr.lo]
            oob == ptr.hi > memSize.hi \/ (ptr.hi = memSize.hi /\ ptr.lo > 0)
                   \/ left.hi < len.hi \/ (left.hi = len.hi /\ left.lo < len.lo)
        IN /\ mem' = mem
           /\ IF oob
              THEN result'.status = "err" /\ result'.err.kind = "MemoryAccess"
              ELSE /\ result'.status = "ok"
                   /\ Len(result'.bytes) = len.hi * Pow16 + len.lo
                   /\ \A i \in 1..Len(result'.bytes) :
                          result'.bytes[i] =
                              IF ptr.hi = 0 /\ (ptr.lo + i - 1) \in DOMAIN mem
                              THEN mem[ptr.lo + i - 1] ELSE 0
      ]_vars

\* four bytes the guest holds were read
C26_Witness ==
    /\ call.entry = "consume_bytes_from_guest"
    /\ call.slice = WasmSliceNew(U32(16), U32(4))
    /\ result.status = "ok" /\ result.bytes = <<1, 2, 3, 4>>

-----------------------------------------------------------------------------
(* C27: move_bytes_to_guest(bytes), on an Env with memory and allocate     *)
(* whose allocate returns a pointer, calls allocate once with len(bytes);  *)
(* when [ptr, ptr+len) lies in memory it writes bytes there and nowhere    *)
(* else and returns WasmSlice(ptr, len).pack(), so that                    *)
(* consume_bytes_from_guest(ptr, len) returns bytes; when it does not, an  *)
(* error is returned and guest memory is unchanged.                        *)
C27_MoveBytesThenConsume ==
    [][(/\ ncalls' = ncalls + 1
        /\ call'.entry = "move_bytes_to_guest"
        /\ env.memory /\ env.allocate /\ ~call'.alloc.trap) =>
        LET ptr == call'.alloc.ptr
            bytes == call'.bytes
            len == U32(Len(bytes))
            end == EndOffset(ptr, len)
            inside == ~U32Lt(memSize, end)
        IN /\ call'.allocs = <<len>>
           /\ IF inside
              THEN /\ result'.status = "ok"
                   /\ ret'.raw = [hi |-> ptr, lo |-> len]
                   /\ consume_bytes_from_guest(env, mem', memSize, ptr, len) = HostOk(bytes)
                   /\ \A a \in DOMAIN mem' :
                          (a < ptr.lo \/ a >= ptr.lo + Len(bytes))
                              => (a \in DOMAIN mem /\ mem'[a] = mem[a])
              ELSE /\ result'.status = "err"
                   /\ mem' = mem
      ]_vars

-----------------------------------------------------------------------------
(* C28: a call of a name the module does not export ends with              *)
(* FunctionNotFound(name) carrying that name, and the lookup is the first  *)
(* step: before the error no guest allocation was requested, no byte of    *)
(* guest memory was written and no guest code ran.                         *)
C28_FunctionNotFoundFirst ==
    (pc \in {"Done", "Failed"} /\ ~HasFunction(call.name)) =>
        /\ pc = "Failed"
        /\ result.status = "err"
        /\ result.err.kind = "FunctionNotFound"
        /\ result.err.text = call.name
        /\ log = <<"Ready", "Failed">>

-----------------------------------------------------------------------------
(* C29: ModuleCache::clear removes every entry of the in-memory map, so    *)
(* that len() is 0 right after it, and changes no file of the cache        *)
(* directory; a get that then misses in the map goes on to the cache       *)
(* directory and loads the artifact stored there or, finding none it can   *)
(* load, compiles the bytes again; and once the map is empty with no get   *)
(* in flight, every entry it holds later is a module made after that.      *)
C29_ServedAfter(h) ==
    [](((\A t \in Threads : th[t].pc = "idle") /\ ModuleCacheLen(modules) = 0
            /\ Len(heap) = h)
        => [](\A k \in CacheKeys : modules[k] # 0 => modules[k] > h))

C29_ClearMemoryOnly ==
    /\ [][\A t \in Threads :
            /\ Clear(t) => /\ ModuleCacheLen(modules') = 0
                           /\ disk' = disk
                           /\ heap' = heap
            /\ (th[t].pc = "check_memory" /\ modules[th[t].key] = 0 /\ th'[t] # th[t])
                  => th'[t].pc = "load_from_disk"
            /\ (th[t].pc = "load_from_disk" /\ th'[t] # th[t])
                  => \/ /\ th'[t].pc = "insert_loaded"
                        /\ config.cache_path /\ disk[th[t].key].exists
                        /\ th'[t].handle = Len(heap) + 1
                        /\ heap'[Len(heap) + 1].wasm = disk[th[t].key].module.wasm
                     \/ th'[t].pc = "compile"]_vars
    /\ \A h \in 0..MaxCacheOps : C29_ServedAfter(h)

\* a key was cached and persisted, the cache was cleared, and a later get of
\* the key has returned a second module while the artifact is still there
C29_Witness ==
    \E t, u \in Threads, k \in CacheKeys :
        /\ th[t].pc = "idle" /\ th[t].res.op = "clear"
        /\ th[u].pc = "idle" /\ th[u].res.op = "get" /\ th[u].res.ok
        /\ th[u].res.key = k /\ th[u].res.handle = 2 /\ modules[k] = 2
        /\ Len(heap) = 2 /\ disk[k].exists /\ disk[k].whole

-----------------------------------------------------------------------------
(* C30: with a cache directory configured, a get that has compiled its     *)
(* bytes goes on to insert the compiled module into the in-memory map and  *)
(* returns Ok with it whatever became of the attempt to persist it (no     *)
(* file, a whole file, a partial file); the only error a get returns is    *)
(* the compilation error of bytes that do not compile.                     *)
C30_DiskFailureSwallowed ==
    /\ [](\A t \in Threads :
            /\ th[t].pc = "save_to_disk"
                  => /\ WasmValid(th[t].wasm)
                     /\ th[t].module = ModuleNew(CacheEngine, th[t].wasm).module
            /\ (th[t].res.op = "get" /\ ~th[t].res.ok) => th[t].res.err = "Compilation")
    /\ [][\A t \in Threads :
            /\ (th[t].pc = "save_to_disk" /\ th'[t] # th[t])
                  => /\ th'[t].pc = "insert"
                     /\ th'[t].handle = Len(heap) + 1
                     /\ heap' = Append(heap, th[t].module)
            /\ (th[t].pc = "insert" /\ th'[t] # th[t])
                  => /\ th'[t].pc = "idle"
                     /\ th'[t].res.op = "get" /\ th'[t].res.ok
                     /\ th'[t].res.module = th[t].module
                     /\ modules'[th[t].key] = th[t].handle
                     /\ heap'[th[t].handle] = th[t].module]_vars

\* a get has returned Ok with the module it compiled, and the map holds it,
\* although the cache directory holds no artifact, or only part of one
C30_Witness ==
    \E t, u \in Threads, k \in CacheKeys :
        /\ t # u /\ config.cache_path
        /\ th[t].pc = "idle" /\ th[t].res.op = "get" /\ th[t].res.ok
        /\ th[t].res.key = k /\ modules[k] = th[t].res.handle
        /\ th[t].res.module.intact /\ ~disk[k].exists
        /\ th[u].pc = "idle" /\ th[u].res.op = "get" /\ th[u].res.ok
        /\ th[u].res.key # k /\ modules[th[u].res.key] = th[u].res.handle
        /\ th[u].res.module.intact
        /\ disk[th[u].res.key].exists /\ ~disk[th[u].res.key].whole

-----------------------------------------------------------------------------
(* C31: a cache file that is not a complete serialised module is never     *)
(* returned as a module: every module a get returns, and every module the  *)
(* in-memory map holds, is a module as Module::new or a whole artifact     *)
(* yields it, and a get that meets a partial file goes on to compile.      *)
C31_PartialFileRejected ==
    /\ \A t \in Threads :
          /\ (th[t].res.op = "get" /\ th[t].res.ok) => th[t].res.module.intact
          /\ th[t].pc = "insert_loaded" => heap[th[t].handle].intact
    /\ \A k \in CacheKeys : modules[k] # 0 => heap[modules[k]].intact

-----------------------------------------------------------------------------
(* C32: the in-memory map changes only in the write-locked insert of a get *)
(* that missed (after a disk load or a compile), which sets the entry of   *)
(* its own key, or in clear, which empties it; a get that finds its key in *)
(* the map returns that entry and leaves the map as it was; and while a    *)
(* get loads from disk, compiles or saves it holds no lock: the lookups,   *)
(* inserts and clears of the other threads can proceed.                    *)
C32_MapChangesUnderWriteLock ==
    /\ [](\A t, u \in Threads :
            (t # u /\ th[t].pc \in {"load_from_disk", "compile", "save_to_disk"})
               => /\ th[u].pc = "check_memory" => ENABLED GetCheckMemory(u)
                  /\ th[u].pc \in {"insert_loaded", "insert"} => ENABLED GetInsert(u)
                  /\ (th[u].pc = "idle" /\ nops < MaxCacheOps) => ENABLED Clear(u))
    /\ [][/\ modules' # modules
              => \E t \in Threads :
                    \/ /\ th[t].pc \in {"insert_loaded", "insert"}
                       /\ th'[t].pc = "idle"
                       /\ modules' = [modules EXCEPT ![th[t].key] = th[t].handle]
                    \/ /\ th[t].pc = "idle" /\ th'[t].res.op = "clear"
                       /\ nops' = nops + 1
                       /\ modules' = [k \in CacheKeys |-> 0]
          /\ \A t \in Threads :
                (th[t].pc = "check_memory" /\ modules[th[t].key] # 0
                    /\ th'[t].pc # th[t].pc)
                   => /\ modules' = modules
                      /\ th'[t].pc = "idle" /\ th'[t].res.ok
                      /\ th'[t].res.handle = modules[th[t].key]]_vars

\* one get is saving its artifact while the other, past its own miss, is
\* about to insert, and the map already holds an entry
C32_Witness ==
    \E t, u \in Threads :
        /\ th[t].pc = "save_to_disk"
        /\ th[u].pc = "insert"
        /\ \E k \in CacheKeys : modules[k] # 0

-----------------------------------------------------------------------------
(* C33: every guest trap captured during a host call, whatever its cause   *)
(* (metering, panic, out-of-bounds access), reaches the caller as an error *)
(* that converts to a GuestCall kind of the shared WasmError type, never   *)
(* to a HostCall kind.                                                     *)
C33_TrapIsGuestCallError ==
    (CallOver /\ call.entry = "call_raw" /\ ret.kind = "trap") =>
        /\ result.status = "err"
        /\ HostErrorToWasmError(result.err.kind)[1] = "GuestCall"

-----------------------------------------------------------------------------
(* C34: threads that call get with the same key on a cache that does not   *)
(* hold it all receive the same handle, and it is the one the map holds    *)
(* afterwards: of the handles returned for a key since the last clear      *)
(* there is only one, the entry of the map.                                *)
C34_ConcurrentGetsShareHandle ==
    \A k \in CacheKeys : settled[k] \subseteq {modules[k]}

-----------------------------------------------------------------------------
(* C35: a get that has missed in memory and on disk and whose bytes do not *)
(* compile returns HostError::Compilation and leaves the cache as it was:  *)
(* the map, the modules built so far and every file of the cache directory *)
(* are unchanged; bytes that do compile take the get on to save and insert *)
(* whatever failed for the key before.                                     *)
C35_FailedCompileLeavesCache ==
    [][\A t \in Threads :
          (th[t].pc = "compile" /\ th'[t].pc # th[t].pc)
             => IF WasmValid(th[t].wasm)
                THEN /\ th'[t].pc = "save_to_disk"
                     /\ th'[t].module = ModuleNew(CacheEngine, th[t].wasm).module
                ELSE /\ th'[t].pc = "idle"
                     /\ th'[t].res.op = "get" /\ ~th'[t].res.ok
                     /\ th'[t].res.err = "Compilation"
                     /\ th'[t].res.key = th[t].key
                     /\ modules' = modules
                     /\ disk' = disk
                     /\ heap' = heap]_vars

\* a get of a key has failed to compile and the key has neither an entry
\* nor a file, while the other key keeps its entry and its artifact
C35_Witness ==
    \E t \in Threads, k, k2 \in CacheKeys :
        /\ th[t].pc = "idle" /\ th[t].res.op = "get" /\ ~th[t].res.ok
        /\ th[t].res.err = "Compilation" /\ th[t].res.key = k
        /\ modules[k] = 0 /\ ~disk[k].exists
        /\ k2 # k /\ modules[k2] # 0 /\ disk[k2].exists /\ disk[k2].whole

-----------------------------------------------------------------------------
-----------------------------------------------------------------------------
(* C38: the size-bounded cache evicts in least-recently-used order: every  *)
(* entry an insert removes to make room was last accessed, by get or by    *)
(* insert, before every entry the insert keeps.                            *)
C38_EvictsLeastRecentlyUsed ==
    lru.last.op = "insert" =>
        \A e \in lru.last.evicted, r \in lru.last.kept :
            lru.last.before[e] < lru.last.before[r]

-----------------------------------------------------------------------------
(* C39: in the size-bounded cache, after any sequence of inserts, gets and *)
(* clears, current_size is the sum of the sizes of the entries present,    *)
(* and it is at most max_size whenever no entry is larger than max_size.   *)
RECURSIVE SumOfSizes(_, _)
SumOfSizes(entries, keys) ==
    IF keys = {} THEN 0
    ELSE LET k == CHOOSE x \in keys : TRUE IN
         entries[k].size + SumOfSizes(entries, keys \ {k})

C39_CurrentSizeIsSum ==
    LET c == lru.cache IN
    /\ c.current_size = SumOfSizes(c.entries, DOMAIN c.entries)
    /\ (\A k \in DOMAIN c.entries : c.entries[k].size <= c.max_size)
          => c.current_size <= c.max_size

-----------------------------------------------------------------------------
(* C21: the deallocate exports leave the arena unchanged for every          *)
(* (ptr, len), returned by allocate or not: after any sequence of calls    *)
(* the arena, its allocations and every pointer handed out are those of    *)
(* the same sequence with the deallocate calls left out, so only reset     *)
(* reclaims memory.                                                        *)
C21_DeallocateNoOp ==
    LET Kept(e) == e.op # "dealloc"
        ops == SelectSeq(alog, Kept)
        R[i \in 0..Len(ops)] ==
            IF i = 0 THEN EmptyArena
            ELSE IF ops[i].op = "reset" THEN ArenaReset(R[i - 1])
                 ELSE ArenaAlloc(R[i - 1], ops[i].len).arena
    IN /\ arena = R[Len(ops)]
       /\ \A i \in 1..Len(ops) :
              ops[i].op # "reset" => ops[i].ptr = ArenaAlloc(R[i - 1], ops[i].len).ptr

\* an allocation of one byte or more was handed to deallocate and a later
\* allocation followed it
C21_Witness ==
    \E i, j, k \in 1..Len(alog) :
        /\ i < j /\ j < k
        /\ alog[i].op \in {"alloc", "alloc_copy"} /\ alog[i].len > 0
        /\ alog[j].op = "dealloc" /\ alog[j].ptr = alog[i].ptr /\ alog[j].len = alog[i].len
        /\ alog[k].op \in {"alloc", "alloc_copy"}

-----------------------------------------------------------------------------
-----------------------------------------------------------------------------
(* The codec's callers: one encode into a caller-supplied buffer, or bytes  *)
(* that arrive from the other side of the boundary, then one decode.       *)

PayloadBytes == {0, 165}
FlagBytes == {0, FLAG_IS_ERROR, 255}
FrameMagics == {MAGIC, 65535}
FrameVersions == {0, PROTOCOL_VERSION, PROTOCOL_VERSION + 1}

RECURSIVE SeqsUpTo(_, _)
\* every sequence over S of length at most n
SeqsUpTo(S, n) ==
    IF n = 0 THEN {<<>>}
    ELSE LET shorter == SeqsUpTo(S, n - 1) IN
         shorter \cup {Append(q, x) : q \in {r \in shorter : Len(r) = n - 1}, x \in S}

Payloads == SeqsUpTo(PayloadBytes, MaxPayload)

\* the payload_len fields a received frame may state
FrameLens == {U32(n) : n \in 0..(MaxPayload + 1)} \cup {U32(Pow16)}

NoEnc == [ok |-> FALSE, len |-> 0, err |-> [kind |-> "NotCalled"]]
NoDec == DecodeErr("NotCalled")

\* a caller's output buffer of n bytes, not yet written
FreshBuffer(n) == [i \in 1..n |-> 238]

Min(a, b) == IF a < b THEN a ELSE b

InitCodec ==
    /\ payload \in Payloads
    /\ flags \in FlagBytes
    /\ output = <<>>
    /\ encRes = NoEnc
    /\ wire = <<>>
    /\ decRes = NoDec
    /\ cpc = "start"
    /\ twin = [wire |-> <<>>, res |-> NoDec]
    /\ IdleCall
    /\ IdleCache
    /\ IdleSlice
    /\ lru = LruIdle
    /\ alog = <<>>
    /\ env = EnvNew

\* a caller encodes payload and flags into a buffer of n bytes
Encode ==
    /\ cpc = "start"
    /\ \E n \in 0..(HEADER_SIZE + MaxPayload + MaxSlack) :
          LET r == encode_with_envelope(payload, flags, FreshBuffer(n)) IN
          /\ output' = r.out
          /\ encRes' = [ok |-> r.ok, len |-> r.len, err |-> r.err]
          /\ wire' = IF r.ok THEN SubSeq(r.out, 1, r.len) ELSE <<>>
          /\ cpc' = IF r.ok THEN "encoded" ELSE "refused"
    /\ UNCHANGED <<payload, flags, decRes, twin, callVars, cacheVars, sliceVars, alog, env, lru>>

\* bytes arrive that no encoder of this library need have written: any magic,
\* version, length field and checksum in front of the payload, cut at n bytes
Frame ==
    /\ cpc = "start"
    /\ \E m \in FrameMagics, v \in FrameVersions, l \in FrameLens,
          goodck \in BOOLEAN, n \in 0..(HEADER_SIZE + Len(payload)) :
          LET region == SubSeq(payload, 1, Min(AsUsize(l), Len(payload)))
              ck == IF goodck THEN compute_checksum(region)
                    ELSE Xor32(compute_checksum(region), U32(1))
              h == [magic |-> m, version |-> v, flags |-> flags,
                    payload_len |-> l, checksum |-> ck]
          IN wire' = SubSeq(HeaderToBytes(h) \o payload, 1, n)
    /\ cpc' = "framed"
    /\ UNCHANGED <<payload, flags, output, encRes, decRes, twin, callVars, cacheVars, sliceVars, alog, env, lru>>

\* one bit of the payload region of an encoded envelope is flipped in transit
FlipBit ==
    /\ cpc = "encoded"
    /\ \E i \in (HEADER_SIZE + 1)..Len(wire), k \in 0..7 :
          wire' = [wire EXCEPT ![i] = Xor(@, 2^k)]
    /\ cpc' = "flipped"
    /\ UNCHANGED <<payload, flags, output, encRes, decRes, twin, callVars, cacheVars, sliceVars, alog, env, lru>>

\* the receiver decodes the bytes
Decode ==
    /\ cpc \in {"encoded", "framed", "flipped"}
    /\ decRes' = decode_envelope(wire)
    /\ cpc' = IF cpc = "flipped" THEN "decoded_flipped" ELSE "decoded"
    /\ UNCHANGED <<payload, flags, output, encRes, wire, twin, callVars, cacheVars, sliceVars, alog, env, lru>>

\* the receiver also decodes the input that differs from wire in byte 3 only
DecodeReflagged ==
    /\ cpc = "decoded" /\ Len(wire) >= 4
    /\ \E f \in FlagBytes :
          LET other == [wire EXCEPT ![4] = f] IN
          twin' = [wire |-> other, res |-> decode_envelope(other)]
    /\ cpc' = "compared"
    /\ UNCHANGED <<payload, flags, output, encRes, wire, decRes, callVars, cacheVars, sliceVars, alog, env, lru>>

NextCodec == Encode \/ Frame \/ FlipBit \/ Decode \/ DecodeReflagged

SpecCodec == InitCodec /\ [][NextCodec]_vars

-----------------------------------------------------------------------------
(* The decoder in the guest, which is built for wasm32: usize has 32 bits. *)

\* decode_envelope(buffer) where usize is u32.  payload_start +
\* header.payload_len as usize is a u32 addition: when it overflows, a build
\* with overflow checks panics at the addition, and a build without them
\* gets the wrapped end, below payload_start, passes the length test and
\* panics at &buffer[payload_start..payload_end]
decode_envelope_usize32(buffer) ==
    IF Len(buffer) < HEADER_SIZE THEN DecodeErr("UnexpectedEof")
    ELSE LET header == HeaderFromBytes(SubSeq(buffer, 1, HEADER_SIZE)) IN
         IF HeaderValidate(header) # "Ok" THEN DecodeErr("InvalidFormat")
         ELSE LET payload_start == U32(HEADER_SIZE)
                  payload_end == WrappingAdd(payload_start, header.payload_len)
              IN IF U32Lt(payload_end, payload_start) THEN DecodeErr("Panic")
                 ELSE IF U32Lt(U32(Len(buffer)), payload_end)
                 THEN DecodeErr("UnexpectedEof")
                 ELSE LET body == SubSeq(buffer, HEADER_SIZE + 1, AsUsize(payload_end)) IN
                      IF compute_checksum(body) # header.checksum
                      THEN DecodeErr("InvalidFormat")
                      ELSE [ok |-> TRUE, err |-> "None", header |-> header,
                            payload |-> body]

\* the payload_len fields of the frames the host may hand to the guest: small
\* ones, and the last ones a u32 can hold
GuestFrameLens ==
    {U32(n) : n \in 0..(MaxPayload + 1)}
        \cup {[hi |-> Pow16 - 1, lo |-> Pow16 - d] : d \in {1, HEADER_SIZE, HEADER_SIZE + 1}}

\* the host leaves a frame in guest memory: a valid magic and version, any
\* length field, a checksum of the payload that follows, cut at n bytes
GuestFrame ==
    /\ cpc = "start"
    /\ \E l \in GuestFrameLens, goodck \in BOOLEAN, n \in 0..(HEADER_SIZE + Len(payload)) :
          LET region == IF l.hi = 0 /\ l.lo < Len(payload)
                        THEN SubSeq(payload, 1, l.lo) ELSE payload
              ck == IF goodck THEN compute_checksum(region)
                    ELSE Xor32(compute_checksum(region), U32(1))
              h == [magic |-> MAGIC, version |-> PROTOCOL_VERSION, flags |-> flags,
                    payload_len |-> l, checksum |-> ck]
          IN wire' = SubSeq(HeaderToBytes(h) \o payload, 1, n)
    /\ cpc' = "framed"
    /\ UNCHANGED <<payload, flags, output, encRes, decRes, twin, callVars, cacheVars, sliceVars, alog, env, lru>>

\* memory.rs, host_args_envelope(ptr, len) over the bytes of the frame
HostArgsEnvelope ==
    /\ cpc = "framed"
    /\ decRes' = IF Len(wire) = 0
                 THEN [ok |-> TRUE, err |-> "None", header |-> NoHeader, payload |-> <<>>]
                 ELSE decode_envelope_usize32(wire)
    /\ cpc' = "decoded"
    /\ UNCHANGED <<payload, flags, output, encRes, wire, twin, callVars, cacheVars, sliceVars, alog, env, lru>>

NextGuestArgs == GuestFrame \/ HostArgsEnvelope

SpecGuestArgs == InitCodec /\ [][NextGuestArgs]_vars

-----------------------------------------------------------------------------
(* What the received bytes state, read off the wire as the format lays it  *)
(* out (section 6 of the specification).                                   *)

WireMagic == wire[1] + 256 * wire[2]
WireVersion == wire[3]
WirePayloadLen == wire[5] + 256 * wire[6] + 65536 * wire[7] + 16777216 * wire[8]
WireHasHeader == Len(wire) >= 12

-----------------------------------------------------------------------------
(* C37: decode_envelope is total and reads only inside its input: for      *)
(* every input and every payload_len in the header, also with 32-bit       *)
(* pointers, 12 + payload_len does not wrap around and the call returns    *)
(* an error or a payload that is a sub-range of the input; it never        *)
(* panics.                                                                 *)
C37_DecodeTotal ==
    (cpc = "decoded" /\ Len(wire) >= HEADER_SIZE) =>
        /\ decRes.err # "Panic"
        /\ ~U32Lt(WrappingAdd(U32(HEADER_SIZE), HeaderFromBytes(SubSeq(wire, 1, HEADER_SIZE)).payload_len),
                  U32(HEADER_SIZE))
        /\ decRes.ok => /\ HEADER_SIZE + Len(decRes.payload) <= Len(wire)
                        /\ decRes.payload
                              = SubSeq(wire, HEADER_SIZE + 1, HEADER_SIZE + Len(decRes.payload))

-----------------------------------------------------------------------------
(* C8: for every payload p, flags byte f and output buffer of at least      *)
(* 12 + len(p) bytes, encode_with_envelope succeeds and decode_envelope of *)
(* the bytes it wrote yields payload p, header.flags = f,                  *)
(* header.payload_len = len(p) and header.checksum = crc32(p).             *)
C8_RoundTrip ==
    /\ (cpc \in {"encoded", "refused"} /\ Len(output) >= 12 + Len(payload))
          => encRes.ok
    /\ (cpc = "decoded" /\ encRes.ok)
          => /\ decRes.ok
             /\ decRes.payload = payload
             /\ decRes.header.flags = flags
             /\ decRes.header.payload_len = [hi |-> 0, lo |-> Len(payload)]
             /\ decRes.header.checksum = compute_checksum(payload)

C8_Witness ==
    /\ cpc = "decoded" /\ encRes.ok /\ decRes.ok
    /\ Len(payload) = MaxPayload /\ flags = 255 /\ Len(output) > 12 + Len(payload)

-----------------------------------------------------------------------------
-----------------------------------------------------------------------------
(* C10: decode_envelope fails with InvalidFormat for every input of at      *)
(* least 12 bytes whose magic is not 0x4149 or whose version is greater    *)
(* than 1; a version of at most 1 is no reason to reject: such an input    *)
(* with the right magic, all of its payload and the payload's checksum     *)
(* decodes.                                                                *)
C10_MagicVersion ==
    (cpc = "decoded" /\ WireHasHeader) =>
        /\ (WireMagic # 16713 \/ WireVersion > 1)
              => (~decRes.ok /\ decRes.err = "InvalidFormat")
        /\ (WireMagic = 16713 /\ WireVersion <= 1 /\ Len(wire) >= 12 + WirePayloadLen
                /\ U32ToLeBytes(compute_checksum(SubSeq(wire, 13, 12 + WirePayloadLen)))
                      = SubSeq(wire, 9, 12))
              => decRes.ok

C10_Witness ==
    /\ cpc = "decoded" /\ WireHasHeader
    /\ WireMagic = 16713 /\ WireVersion = 2
    /\ decRes.err = "InvalidFormat"

-----------------------------------------------------------------------------
(* C11: for every envelope encode_with_envelope produced from a non-empty   *)
(* payload, flipping any single bit of the payload region, with the header *)
(* left as it was, makes decode_envelope fail with InvalidFormat.          *)
C11_BitFlipDetected ==
    cpc = "decoded_flipped" =>
        /\ SubSeq(wire, 1, 12) = SubSeq(output, 1, 12)
        /\ SubSeq(wire, 13, Len(wire)) # payload
        /\ ~decRes.ok /\ decRes.err = "InvalidFormat"

C11_Witness ==
    /\ cpc = "decoded_flipped" /\ Len(payload) = MaxPayload
    /\ wire[Len(wire)] = Xor(payload[Len(payload)], 128)
    /\ decRes.err = "InvalidFormat"

-----------------------------------------------------------------------------
(* C12: decode_envelope accepts an input only if header.payload_len equals  *)
(* the number of bytes that follow the 12-byte header; an input carrying   *)
(* more bytes after the header than payload_len states is not decoded      *)
(* successfully.                                                           *)
C12_NoTrailingBytes ==
    (cpc = "decoded" /\ decRes.ok) => Len(wire) = 12 + WirePayloadLen

-----------------------------------------------------------------------------
(* C13: the outcome of decode_envelope does not depend on the flags byte:   *)
(* two inputs that differ only in byte 3 give the same result kind and the *)
(* same payload, on success header.flags equals byte 3, and an envelope    *)
(* with the IsError flag set decodes successfully.                         *)
C13_FlagsIndependent ==
    cpc = "compared" =>
        /\ \A i \in 1..Len(wire) : i # 4 => twin.wire[i] = wire[i]
        /\ twin.res.ok = decRes.ok
        /\ twin.res.err = decRes.err
        /\ twin.res.payload = decRes.payload
        /\ decRes.ok => (decRes.header.flags = wire[4]
                           /\ twin.res.header.flags = twin.wire[4])

C13_Witness ==
    /\ cpc = "compared" /\ wire[4] = 0 /\ twin.wire[4] = 8
    /\ decRes.ok /\ twin.res.ok /\ HeaderIsError(twin.res.header)
    /\ Len(twin.res.payload) = MaxPayload

-----------------------------------------------------------------------------
(* C14: encode_with_envelope(p, f, out) fails with BufferTooSmall{needed =  *)
(* 12 + len(p), available = len(out)} exactly when len(out) < 12 + len(p), *)
(* and then writes nothing to out; otherwise it succeeds and returns       *)
(* 12 + len(p).                                                            *)
C14_BufferTooSmall ==
    cpc \in {"encoded", "refused"} =>
        IF Len(output) < 12 + Len(payload)
        THEN /\ ~encRes.ok
             /\ encRes.err = [kind |-> "BufferTooSmall", needed |-> 12 + Len(payload),
                              available |-> Len(output)]
             /\ output = FreshBuffer(Len(output))
        ELSE encRes.ok /\ encRes.len = 12 + Len(payload)

C14_Witness ==
    /\ cpc = "refused" /\ Len(payload) = MaxPayload
    /\ Len(output) = 12 + Len(payload) - 1
    /\ encRes.err.kind = "BufferTooSmall"

-----------------------------------------------------------------------------
(* C15: on success encode_with_envelope(p, f, out) writes exactly the       *)
(* little-endian layout out[0..2] = [0x49, 0x41], out[2] = 1, out[3] = f,  *)
(* out[4..8] = len(p), out[8..12] = crc32(p), out[12..12+len(p)] = p, and  *)
(* leaves the bytes of out from offset 12 + len(p) onward unchanged.       *)
(* crc32 of the one-byte payload 00 is D202EF8D, of A5 it is 74BEB8EA.     *)
C15_Layout ==
    cpc = "encoded" =>
        /\ SubSeq(output, 1, 4) = <<73, 65, 1, flags>>
        /\ SubSeq(output, 5, 8) = <<Len(payload), 0, 0, 0>>
        /\ SubSeq(output, 9, 12) = U32ToLeBytes(compute_checksum(payload))
        /\ payload = <<>> => SubSeq(output, 9, 12) = <<0, 0, 0, 0>>
        /\ payload = <<0>> => SubSeq(output, 9, 12) = <<141, 239, 2, 210>>
        /\ payload = <<165>> => SubSeq(output, 9, 12) = <<234, 184, 190, 116>>
        /\ SubSeq(output, 13, 12 + Len(payload)) = payload
        /\ \A i \in (13 + Len(payload))..Len(output) : output[i] = 238

C15_Witness ==
    /\ cpc = "encoded" /\ payload = <<165>> /\ flags = 255
    /\ Len(output) = 12 + Len(payload) + MaxSlack

-----------------------------------------------------------------------------
(* C16: for every WasmSlice s with any u32 ptr and any u32 len,             *)
(* WasmResult::ok(s) has bit 63 clear (is_ok true, is_err false),          *)
(* WasmResult::err(s) has bit 63 set (is_err true), and slice() of either  *)
(* result returns s with the same ptr and len.                             *)
C16_OkErrAnyPtr ==
    sout.op = "result" =>
        /\ sout.okIsOk /\ ~sout.okIsErr
        /\ sout.errIsErr /\ ~sout.errIsOk
        /\ sout.okSlice = sin.a
        /\ sout.errSlice = sin.a

-----------------------------------------------------------------------------
(* C17: for every 64-bit value r, WasmResult::from_raw(r).into_raw() = r,   *)
(* and for every WasmResult exactly one of is_ok and is_err holds.         *)
C17_RawRoundTrip ==
    sout.op = "from_raw" =>
        /\ sout.back = [hi |-> sin.a.ptr, lo |-> sin.a.len]
        /\ sout.isOk # sout.isErr
        /\ sout.isErr = (sin.a.ptr.hi >= 32768)

C17_Witness ==
    /\ sout.op = "from_raw"
    /\ sin.a.ptr = [hi |-> 32767, lo |-> 65535] /\ sin.a.len = U32Max
    /\ sout.isOk

-----------------------------------------------------------------------------
(* C18: for every ptr and len in 0..2^32-1, unpack(new(ptr, len).pack())    *)
(* has the same ptr and len, and pack() equals (ptr << 32) | len;          *)
(* conversely pack(unpack(x)) = x for every 64-bit x.                      *)
C18_PackUnpack ==
    sout.op = "pack" =>
        /\ sout.unpacked.ptr = sin.a.ptr /\ sout.unpacked.len = sin.a.len
        /\ sout.packed.hi = sin.a.ptr /\ sout.packed.lo = sin.a.len
        /\ sout.repacked = sout.x

C18_Witness ==
    /\ sout.op = "pack"
    /\ sin.a.ptr = U32Max /\ sin.a.len = [hi |-> 32768, lo |-> 0]
    /\ sout.x.hi = [hi |-> 32768, lo |-> 0] /\ sout.x.lo = U32(120)

-----------------------------------------------------------------------------
(* C19: with end = ptr + len saturating at 2^32-1, a.overlaps(b) is true    *)
(* exactly when a.ptr < b.end and b.ptr < a.end, a.contains(o) is true     *)
(* exactly when a.ptr <= o < a.end, and overlaps is symmetric.  Here       *)
(* x < s.end is decided without forming the sum: if len > 2^32-1 - ptr the *)
(* end is 2^32-1, otherwise x < ptr or x - ptr < len.                      *)
C19_OverlapsContains ==
    sout.op = "overlaps" =>
        LET Sub(x, y) == [hi |-> (x.hi - y.hi - (IF x.lo < y.lo THEN 1 ELSE 0)) % Pow16,
                          lo |-> (x.lo - y.lo) % Pow16]
            BelowEnd(x, s) ==
                IF U32Lt(Sub(U32Max, s.ptr), s.len) THEN x # U32Max
                ELSE U32Lt(x, s.ptr) \/ U32Lt(Sub(x, s.ptr), s.len)
            a == sin.a
            b == sin.b
        IN /\ sout.ab = (BelowEnd(a.ptr, b) /\ BelowEnd(b.ptr, a))
           /\ sout.contains = (~U32Lt(sin.o, a.ptr) /\ BelowEnd(sin.o, a))
           /\ sout.ab = sout.ba
           /\ (a = WasmSliceNew(U32(100), U32(50)) /\ b = WasmSliceNew(U32(120), U32(50)))
                 => sout.ab
           /\ (a = WasmSliceNew(U32(0), U32(50)) /\ b = WasmSliceNew(U32(50), U32(50)))
                 => ~sout.ab
           /\ a = WasmSliceNew(U32(100), U32(50))
                 => (sout.contains = (sin.o \in {U32(100), U32(120)}))

C19_Witness ==
    /\ sout.op = "overlaps"
    /\ sin.a = WasmSliceNew([hi |-> 32768, lo |-> 0], U32Max)
    /\ sin.b = WasmSliceNew(U32Max, U32(50))
    /\ sin.o = [hi |-> 32768, lo |-> 0]
    /\ sout.contains /\ ~sout.ab

====
